---------------------------- MODULE Spec2Model ----------------------------
(***************************************************************************)
(* A model of FreeRDP's colour conversion and raster copy routines         *)
(* (libfreerdp/codec/color.c).                                             *)
(*                                                                         *)
(* Memory is one arena of bytes; a pointer is an offset into it and NULL   *)
(* is an offset in front of it.  Every exported routine is one action: the *)
(* caller hands it a buffer and arguments, the action leaves the call, the *)
(* buffer before and after, and the return value in the state.  The only   *)
(* state the library itself keeps between calls is the static backend      *)
(* handle "prims" of freerdp_image_copy_no_overlap; the steps of threads   *)
(* that race for it are actions of their own.                              *)
(***************************************************************************)
EXTENDS Integers, Sequences, FiniteSets, TLC

VARIABLES
    call,   \* the routine last called and its arguments
    old,    \* the arena as the caller handed it over
    mem,    \* the arena when the routine returned
    ret,    \* the routine's return value
    path,   \* what the routine went through (copy path, asserted conditions, resolved strides)
    prims,  \* static primitives_t* prims of freerdp_image_copy_no_overlap
    threads \* where each thread stands in its call of freerdp_image_copy_no_overlap

vars == <<call, old, mem, ret, path, prims, threads>>

\* the arena of the model lies at address 4096 and pointers are offsets into it, so that
\* the null pointer, address 0, is the offset -4096
NULL == -4096

INT32_MAX == 2147483647

Pow2(n) == 2 ^ n

\* x >> n and (BYTE)x on unsigned values
Shr(x, n) == x \div Pow2(n)

BYTE(x) == x % 256

Min(a, b) == IF a < b THEN a ELSE b

(***************************************************************************)
(* Pixel format descriptors: FREERDP_PIXEL_FORMAT(bpp, type, a, r, g, b).  *)
(***************************************************************************)
Fmt(bpp, type, a, r, g, b) == [bpp |-> bpp, type |-> type, a |-> a, r |-> r, g |-> g, b |-> b]

PixelFormats ==
    { "ARGB32", "XRGB32", "ABGR32", "XBGR32", "BGRA32", "BGRX32", "RGBA32", "RGBX32",
      "BGRX32_DEPTH30", "RGBX32_DEPTH30", "RGB24", "BGR24", "RGB16", "BGR16",
      "ARGB15", "RGB15", "ABGR15", "BGR15", "RGB8", "A4", "MONO" }

FormatDescriptor(format) ==
    CASE format = "ARGB32" -> Fmt(32, "ARGB", 8, 8, 8, 8)
      [] format = "XRGB32" -> Fmt(32, "ARGB", 0, 8, 8, 8)
      [] format = "ABGR32" -> Fmt(32, "ABGR", 8, 8, 8, 8)
      [] format = "XBGR32" -> Fmt(32, "ABGR", 0, 8, 8, 8)
      [] format = "BGRA32" -> Fmt(32, "BGRA", 8, 8, 8, 8)
      [] format = "BGRX32" -> Fmt(32, "BGRA", 0, 8, 8, 8)
      [] format = "RGBA32" -> Fmt(32, "RGBA", 8, 8, 8, 8)
      [] format = "RGBX32" -> Fmt(32, "RGBA", 0, 8, 8, 8)
      [] format = "BGRX32_DEPTH30" -> Fmt(32, "BGRA", 0, 10, 10, 10)
      [] format = "RGBX32_DEPTH30" -> Fmt(32, "RGBA", 0, 10, 10, 10)
      [] format = "RGB24" -> Fmt(24, "ARGB", 0, 8, 8, 8)
      [] format = "BGR24" -> Fmt(24, "ABGR", 0, 8, 8, 8)
      [] format = "RGB16" -> Fmt(16, "ARGB", 0, 5, 6, 5)
      [] format = "BGR16" -> Fmt(16, "ABGR", 0, 5, 6, 5)
      [] format = "ARGB15" -> Fmt(16, "ARGB", 1, 5, 5, 5)
      [] format = "RGB15" -> Fmt(15, "ARGB", 0, 5, 5, 5)
      [] format = "ABGR15" -> Fmt(16, "ABGR", 1, 5, 5, 5)
      [] format = "BGR15" -> Fmt(15, "ABGR", 0, 5, 5, 5)
      [] format = "RGB8" -> Fmt(8, "A", 8, 0, 0, 0)
      [] format = "A4" -> Fmt(4, "A", 4, 0, 0, 0)
      [] format = "MONO" -> Fmt(1, "A", 1, 0, 0, 0)

FreeRDPGetBitsPerPixel(format) == FormatDescriptor(format).bpp

FreeRDPGetBytesPerPixel(format) == (FreeRDPGetBitsPerPixel(format) + 7) \div 8

FreeRDPColorHasAlpha(format) == FormatDescriptor(format).a # 0

\* the two formats compared with bit 15 (the 8 of the alpha width) masked out
FreeRDPAreColorFormatsEqualNoAlpha_int(first, second) ==
    LET f == FormatDescriptor(first)
        s == FormatDescriptor(second)
    IN  /\ f.bpp = s.bpp /\ f.type = s.type
        /\ f.r = s.r /\ f.g = s.g /\ f.b = s.b
        /\ f.a % 8 = s.a % 8

(***************************************************************************)
(* The colour codec.  A UINT32 colour is the tuple of its four bytes, most *)
(* significant first: <<b3, b2, b1, b0>> is b3 << 24 | b2 << 16 | b1 << 8  *)
(* | b0.                                                                   *)
(***************************************************************************)
U32(b3, b2, b1, b0) == <<b3, b2, b1, b0>>

\* the UINT32 of a value below 2^31
ToU32(v) == U32(Shr(v, 24) % 256, Shr(v, 16) % 256, Shr(v, 8) % 256, v % 256)

\* color & 0x00FFFFFF as a number
Low24(color) == color[2] * Pow2(16) + color[3] * Pow2(8) + color[4]

RGBA(r, g, b, a) == [a |-> a, b |-> b, g |-> g, r |-> r]

\* an 8-bit channel at bit offset sh: (BYTE)(color >> sh)
Channel8(color, sh) == color[4 - sh \div 8]

\* a 5-bit channel at bit offset sh widened to 8 bits: (c << 3) + c / 4
Channel5(color, sh) ==
    LET c == Shr(Low24(color), sh) % 32
        val == c * 8 + c \div 4
    IN  IF val > 255 THEN 255 ELSE val

\* a 6-bit channel at bit offset sh widened to 8 bits: (c << 2) + c / 4 / 2
Channel6(color, sh) ==
    LET c == Shr(Low24(color), sh) % 64
        val == c * 4 + (c \div 4) \div 2
    IN  IF val > 255 THEN 255 ELSE val


\* color & 0x8000 ? 0xFF : 0x00
AlphaBit15(color) == IF Shr(Low24(color), 15) % 2 = 1 THEN 255 ELSE 0

\* color <= 0xFF
IsPaletteIndex(color) == color[1] = 0 /\ color[2] = 0 /\ color[3] = 0

NoPalette == [format |-> "NONE"]

RECURSIVE FreeRDPSplitColor(_, _, _)
FreeRDPSplitColor(color, format, palette) ==
    CASE format = "ARGB32" ->
            RGBA(Channel8(color, 16), Channel8(color, 8), Channel8(color, 0), Channel8(color, 24))
      [] format = "XRGB32" ->
            RGBA(Channel8(color, 16), Channel8(color, 8), Channel8(color, 0), 255)
      [] format = "ABGR32" ->
            RGBA(Channel8(color, 0), Channel8(color, 8), Channel8(color, 16), Channel8(color, 24))
      [] format = "XBGR32" ->
            RGBA(Channel8(color, 0), Channel8(color, 8), Channel8(color, 16), 255)
      [] format = "RGBA32" ->
            RGBA(Channel8(color, 24), Channel8(color, 16), Channel8(color, 8), Channel8(color, 0))
      [] format = "RGBX32" ->
            RGBA(Channel8(color, 24), Channel8(color, 16), Channel8(color, 8), 255)
      [] format = "BGRA32" ->
            RGBA(Channel8(color, 8), Channel8(color, 16), Channel8(color, 24), Channel8(color, 0))
      [] format = "BGRX32" ->
            RGBA(Channel8(color, 8), Channel8(color, 16), Channel8(color, 24), 255)
      [] format = "RGB24" ->
            RGBA(Channel8(color, 16), Channel8(color, 8), Channel8(color, 0), 255)
      [] format = "BGR24" ->
            RGBA(Channel8(color, 0), Channel8(color, 8), Channel8(color, 16), 255)
      [] format = "RGB16" ->
            RGBA(Channel5(color, 11), Channel6(color, 5), Channel5(color, 0), 255)
      [] format = "BGR16" ->
            RGBA(Channel5(color, 0), Channel6(color, 5), Channel5(color, 11), 255)
      [] format = "ARGB15" ->
            RGBA(Channel5(color, 10), Channel5(color, 5), Channel5(color, 0), AlphaBit15(color))
      [] format = "ABGR15" ->
            RGBA(Channel5(color, 0), Channel5(color, 5), Channel5(color, 10), AlphaBit15(color))
      [] format = "RGB15" ->
            RGBA(Channel5(color, 10), Channel5(color, 5), Channel5(color, 0), 255)
      [] format = "BGR15" ->
            RGBA(Channel5(color, 0), Channel5(color, 5), Channel5(color, 10), 255)
      [] format = "RGB8" ->
            IF IsPaletteIndex(color)
            THEN FreeRDPSplitColor(palette.palette[color[4]], palette.format, NoPalette)
            ELSE RGBA(0, 0, 0, 0)
      [] format = "MONO" ->
            IF color # U32(0, 0, 0, 0) THEN RGBA(255, 255, 255, 255) ELSE RGBA(0, 0, 0, 0)
      [] OTHER -> RGBA(0, 0, 0, 0)   \* A4, the DEPTH30 formats, anything else: "Unsupported format"

\* the 30-bit word t with its four bytes swapped
SwapBytes32(t) == U32(t % 256, Shr(t, 8) % 256, Shr(t, 16) % 256, Shr(t, 24))

\* what the X byte of RGBX32 and BGRX32 is packed with: "| _a"
PackXByte(a) == a

\* ((c >> 3) & 0x1F) << sh and ((c >> 2) & 0x3F) << sh
Pack5(c, sh) == (Shr(c, 3) % 32) * Pow2(sh)

Pack6(c, sh) == (Shr(c, 2) % 64) * Pow2(sh)

\* _a ? 0x8000 : 0x0000
PackAlphaBit15(a) == IF a # 0 THEN 32768 ELSE 0

FreeRDPGetColor(format, r, g, b, a) ==
    CASE format = "ARGB32" -> U32(a, r, g, b)
      [] format = "XRGB32" -> U32(0, r, g, b)
      [] format = "ABGR32" -> U32(a, b, g, r)
      [] format = "XBGR32" -> U32(0, b, g, r)
      [] format = "RGBA32" -> U32(r, g, b, a)
      [] format = "RGBX32" -> U32(r, g, b, PackXByte(a))
      [] format = "BGRA32" -> U32(b, g, r, a)
      [] format = "BGRX32" -> U32(b, g, r, PackXByte(a))
      [] format = "RGBX32_DEPTH30" -> SwapBytes32(r * Pow2(22) + g * Pow2(12) + b * Pow2(2))
      [] format = "BGRX32_DEPTH30" -> SwapBytes32(r * Pow2(22) + g * Pow2(12) + b * Pow2(2))
      [] format = "RGB24" -> U32(0, r, g, b)
      [] format = "BGR24" -> U32(0, b, g, r)
      [] format = "RGB16" -> ToU32(Pack5(r, 11) + Pack6(g, 5) + Pack5(b, 0))
      [] format = "BGR16" -> ToU32(Pack5(b, 11) + Pack6(g, 5) + Pack5(r, 0))
      [] format = "ARGB15" -> ToU32(Pack5(r, 10) + Pack5(g, 5) + Pack5(b, 0) + PackAlphaBit15(a))
      [] format = "ABGR15" -> ToU32(Pack5(b, 10) + Pack5(g, 5) + Pack5(r, 0) + PackAlphaBit15(a))
      [] format = "RGB15" -> ToU32(Pack5(r, 10) + Pack5(g, 5) + Pack5(b, 0))
      [] format = "BGR15" -> ToU32(Pack5(b, 10) + Pack5(g, 5) + Pack5(r, 0))
      [] OTHER -> U32(0, 0, 0, 0)   \* RGB8, A4, MONO: "Unsupported format", returns 0

FreeRDPConvertColor(color, srcFormat, dstFormat, palette) ==
    LET c == FreeRDPSplitColor(color, srcFormat, palette)
    IN  FreeRDPGetColor(dstFormat, c.r, c.g, c.b, c.a)

(***************************************************************************)
(* Memory.  One arena of bytes holds every buffer of a call, so that two   *)
(* views may alias.                                                        *)
(***************************************************************************)
ArenaSize == 48

Arena == 0 .. (ArenaSize - 1)

\* every byte of the caller's buffer differs from every other
InitialArena == [i \in Arena |-> i + 1]

\* a UINT32 that may exceed INT32_MAX is the pair of its top bit and its low 31 bits
UINT32(hi, lo) == [hi |-> hi, lo |-> lo]

\* n >= INT32_MAX, the comparison off by one
ExceedsINT32_MAX_inclusive(n) == n.hi = 1 \/ n.lo = INT32_MAX

\* n > INT32_MAX
ExceedsINT32_MAX(n) == n.hi = 1

\* n == 0
IsZero(n) == n.hi = 0 /\ n.lo = 0

\* 1ULL * n * k.  The product is exact for n below 2^20.  A larger n is taken as 2^20: the
\* product is only ever compared with offsets into the arena and with other such products,
\* and with strides and offsets far below 2^20 each comparison comes out as for n itself.
Times(n, k) == IF n.hi = 0 /\ n.lo < Pow2(20) THEN n.lo * k ELSE Pow2(20) * k

\* memmove(dst, src, n)
memmove(m, dst, src, n) ==
    [i \in DOMAIN m |-> IF i >= dst /\ i < dst + n THEN m[i - dst + src] ELSE m[i]]

\* a copy that runs byte by byte from the first byte to the last
RECURSIVE CopyForward(_, _, _, _)
CopyForward(m, dst, src, n) ==
    IF n = 0 THEN m
    ELSE CopyForward([m EXCEPT ![dst] = m[src]], dst + 1, src + 1, n - 1)

\* a copy that runs byte by byte from the last byte to the first
RECURSIVE CopyBackward(_, _, _, _)
CopyBackward(m, dst, src, n) ==
    IF n = 0 THEN m
    ELSE CopyBackward([m EXCEPT ![dst + n - 1] = m[src + n - 1]], dst, src, n - 1)

\* the directions a C library's memcpy may run in
Libc == {"forward", "backward"}

\* memcpy(dst, src, n): undefined when the two ranges overlap, where the result is the one
\* of the direction the library's memcpy happens to run in
memcpy(m, dst, src, n, libc) ==
    IF dst + n <= src \/ src + n <= dst
    THEN memmove(m, dst, src, n)
    ELSE IF libc = "forward" THEN CopyForward(m, dst, src, n) ELSE CopyBackward(m, dst, src, n)

\* FreeRDPReadColor_int(src, format): the packed colour stored at address p
FreeRDPReadColor_int(m, p, format) ==
    LET bpp == FreeRDPGetBitsPerPixel(format)
    IN  CASE bpp = 32 -> U32(m[p], m[p + 1], m[p + 2], m[p + 3])
          [] bpp = 24 -> U32(0, m[p], m[p + 1], m[p + 2])
          [] bpp = 16 -> U32(0, 0, m[p + 1], m[p])
          [] bpp = 15 ->
                U32(0, 0, IF FreeRDPColorHasAlpha(format) THEN m[p + 1] ELSE m[p + 1] % 128, m[p])
          [] OTHER -> U32(0, 0, 0, m[p])

\* FreeRDPWriteColor_int(dst, format, color): the memory after the write and its result
FreeRDPWriteColor_int(m, p, format, color) ==
    LET bpp == FreeRDPGetBitsPerPixel(format)
    IN  CASE bpp = 32 ->
                [mem |-> [m EXCEPT ![p] = color[1], ![p + 1] = color[2],
                                   ![p + 2] = color[3], ![p + 3] = color[4]],
                 ok |-> TRUE]
          [] bpp = 24 ->
                [mem |-> [m EXCEPT ![p] = color[2], ![p + 1] = color[3], ![p + 2] = color[4]],
                 ok |-> TRUE]
          [] bpp = 16 ->
                [mem |-> [m EXCEPT ![p + 1] = color[3], ![p] = color[4]], ok |-> TRUE]
          [] bpp = 15 ->
                [mem |-> [m EXCEPT ![p + 1] = IF FreeRDPColorHasAlpha(format)
                                                THEN color[3] ELSE color[3] % 128,
                                   ![p] = color[4]],
                 ok |-> TRUE]
          [] bpp = 8 -> [mem |-> [m EXCEPT ![p] = color[4]], ok |-> TRUE]
          [] OTHER -> [mem |-> m, ok |-> FALSE]

\* FreeRDPWriteColorIgnoreAlpha_int(dst, format, color): the alpha byte of a 32-bit
\* destination pixel is left as it is
FreeRDPWriteColorIgnoreAlpha_int(m, p, format, color) ==
    CASE format \in {"XBGR32", "XRGB32", "ABGR32", "ARGB32"} ->
            [mem |-> [m EXCEPT ![p + 1] = color[2], ![p + 2] = color[3], ![p + 3] = color[4]],
             ok |-> TRUE]
      [] format \in {"BGRX32", "RGBX32", "BGRA32", "RGBA32"} ->
            [mem |-> [m EXCEPT ![p] = color[1], ![p + 1] = color[2], ![p + 2] = color[3]],
             ok |-> TRUE]
      [] OTHER -> FreeRDPWriteColor_int(m, p, format, color)

(***************************************************************************)
(* The region copy engine.  The arguments of a copy are one record a with  *)
(* the fields of the C signature; nWidth and nHeight are UINT32 pairs.     *)
(* build is what the compilation decides: whether WINPR_ASSERT aborts,     *)
(* the direction memcpy runs in, and whether a loop over restrict pointers *)
(* reads a row before it writes it.                                        *)
(***************************************************************************)
\* what a call went through: the copy path entered and the branch taken in it, whether the
\* assertion of the path held, and the strides after zero-stride resolution (0: none made)
Path(copy, branch, asserted, dstStep, srcStep) ==
    [asserted |-> asserted, branch |-> branch, copy |-> copy, dstStep |-> dstStep,
     srcStep |-> srcStep]

NoPath == Path("none", "none", TRUE, 0, 0)

\* return values: nothing yet, a BOOL, a packed colour, none because an assertion aborted
NoRet == [void |-> TRUE]

Status(ok) == [ok |-> ok]

Packed(color) == [color |-> color]

Aborted == [aborted |-> TRUE]

Outcome(m, r, p) == [mem |-> m, path |-> p, ret |-> r]

\* the arguments of a copy
CopyArgs(pDstData, DstFormat, nDstStep, nXDst, nYDst, nWidth, nHeight, pSrcData, SrcFormat, nSrcStep, nXSrc, nYSrc, flags) ==
    [pDstData |-> pDstData, DstFormat |-> DstFormat, nDstStep |-> nDstStep, nXDst |-> nXDst,
     nYDst |-> nYDst, nWidth |-> nWidth, nHeight |-> nHeight, pSrcData |-> pSrcData,
     SrcFormat |-> SrcFormat, nSrcStep |-> nSrcStep, nXSrc |-> nXSrc, nYSrc |-> nYSrc,
     flags |-> flags]

overlapping(pDstData, nXDst, nYDst, nDstStep, dstBytesPerPixel, pSrcData, nXSrc, nYSrc, nSrcStep, srcBytesPerPixel, nWidth, nHeight) ==
    LET pDstStart == pDstData + nXDst * dstBytesPerPixel + nYDst * nDstStep
        pDstEnd == pDstStart + Times(nHeight, nDstStep)
        pSrcStart == pSrcData + nXSrc * srcBytesPerPixel + nYSrc * nSrcStep
        pSrcEnd == pSrcStart + Times(nHeight, nSrcStep)
    IN  \/ (pDstStart >= pSrcStart /\ pDstStart <= pSrcEnd)
        \/ (pDstEnd >= pSrcStart /\ pDstEnd <= pSrcEnd)

\* overlapping() on the arguments of a copy with the strides given
Overlapping(a, nDstStep, nSrcStep) ==
    overlapping(a.pDstData, a.nXDst, a.nYDst, nDstStep, FreeRDPGetBytesPerPixel(a.DstFormat),
                a.pSrcData, a.nXSrc, a.nYSrc, nSrcStep, FreeRDPGetBytesPerPixel(a.SrcFormat),
                a.nWidth, a.nHeight)

\* if (nStep == 0) nStep = nWidth * FreeRDPGetBytesPerPixel(Format)
ResolveStep(nStep, nWidth, format) ==
    IF nStep = 0 THEN nWidth * FreeRDPGetBytesPerPixel(format) ELSE nStep

\* &pSrcData[srcVMultiplier * (y + nYSrc) * nSrcStep + srcVOffset]
SrcLine(a, y, nSrcStep, srcVMultiplier, srcVOffset) ==
    a.pSrcData + srcVMultiplier * (y + a.nYSrc) * nSrcStep + srcVOffset

\* &pDstData[dstVMultiplier * (y + nYDst) * nDstStep + dstVOffset]
DstLine(a, y, nDstStep, dstVMultiplier, dstVOffset) ==
    a.pDstData + dstVMultiplier * (y + a.nYDst) * nDstStep + dstVOffset

\* for (y = 0; y < nHeight; y++) and for (y = nHeight - 1; y >= 0; y--)
Ascending(nHeight) == [i \in 1 .. nHeight |-> i - 1]

Descending(nHeight) == [i \in 1 .. nHeight |-> nHeight - i]

\* the row loops of the same-format branch: one memcpy or memmove of copyDstWidth bytes
\* for each y, in the order given
RECURSIVE CopyLines(_, _, _, _, _, _, _, _)
CopyLines(m, a, order, nDstStep, nSrcStep, srcV, move, libc) ==
    IF order = << >> THEN m
    ELSE LET y == Head(order)
             n == a.nWidth.lo * FreeRDPGetBytesPerPixel(a.DstFormat)
             src == SrcLine(a, y, nSrcStep, srcV.multiplier, srcV.offset)
                        + a.nXSrc * FreeRDPGetBytesPerPixel(a.SrcFormat)
             dst == DstLine(a, y, nDstStep, 1, 0) + a.nXDst * FreeRDPGetBytesPerPixel(a.DstFormat)
             after == IF move THEN memmove(m, dst, src, n) ELSE memcpy(m, dst, src, n, libc)
         IN  CopyLines(after, a, Tail(order), nDstStep, nSrcStep, srcV, move, libc)

\* what the per-pixel loops need to know of a scanline pair: where the lines start, the
\* bytes per pixel the loop addresses with, and which write it uses
Lines(src, dst, srcByte, dstByte, ignoreAlpha, vector) ==
    [dst |-> dst, dstByte |-> dstByte, ignoreAlpha |-> ignoreAlpha, src |-> src,
     srcByte |-> srcByte, vector |-> vector]

WritePixel(m, p, format, color, ignoreAlpha) ==
    IF ignoreAlpha
    THEN FreeRDPWriteColorIgnoreAlpha_int(m, p, format, color).mem
    ELSE FreeRDPWriteColor_int(m, p, format, color).mem

\* for (x = 1; x < nWidth; x++): the colour converted last is written again while the
\* source colour stays the same.  row is the scanline as it was when the loop began, which
\* is what a loop that the compiler vectorized over restrict pointers reads from.
RECURSIVE ConvertPixels(_, _, _, _, _, _, _, _)
ConvertPixels(m, row, a, palette, ln, x, oldColor, dstColor) ==
    IF x >= a.nWidth.lo THEN m
    ELSE LET color == FreeRDPReadColor_int(IF ln.vector THEN row ELSE m,
                                           ln.src + (x + a.nXSrc) * ln.srcByte, a.SrcFormat)
             converted == IF color = oldColor
                          THEN dstColor
                          ELSE FreeRDPConvertColor(color, a.SrcFormat, a.DstFormat, palette)
             after == WritePixel(m, ln.dst + (x + a.nXDst) * ln.dstByte, a.DstFormat,
                                 converted, ln.ignoreAlpha)
         IN  ConvertPixels(after, row, a, palette, ln, x + 1, color, converted)

\* one scanline of the conversion loop: the first pixel, then the rest
ConvertLine(m, a, palette, ln) ==
    LET color == FreeRDPReadColor_int(m, ln.src + a.nXSrc * ln.srcByte, a.SrcFormat)
        dstColor == FreeRDPConvertColor(color, a.SrcFormat, a.DstFormat, palette)
        after == WritePixel(m, ln.dst + a.nXDst * ln.dstByte, a.DstFormat, dstColor,
                            ln.ignoreAlpha)
    IN  ConvertPixels(after, m, a, palette, ln, 1, color, dstColor)

\* for (y = 0; y < nHeight; y++) around the conversion of a scanline
RECURSIVE ConvertLines(_, _, _, _, _, _, _, _)
ConvertLines(m, a, palette, y, nDstStep, nSrcStep, srcV, shape) ==
    IF y >= a.nHeight.lo THEN m
    ELSE LET ln == Lines(SrcLine(a, y, nSrcStep, srcV.multiplier, srcV.offset),
                         DstLine(a, y, nDstStep, 1, 0),
                         shape.srcByte, shape.dstByte, shape.ignoreAlpha, shape.vector)
         IN  ConvertLines(ConvertLine(m, a, palette, ln), a, palette, y + 1,
                          nDstStep, nSrcStep, srcV, shape)

\* the inner loop of freerdp_image_copy_bgr24_bgrx32 and freerdp_image_copy_bgrx32_bgrx32:
\* bytes 0, 1 and 2 of every pixel
RECURSIVE CopyChannels(_, _, _, _, _)
CopyChannels(m, row, a, ln, x) ==
    IF x >= a.nWidth.lo THEN m
    ELSE LET from == IF ln.vector THEN row ELSE m
             s == ln.src + (x + a.nXSrc) * ln.srcByte
             d == ln.dst + (x + a.nXDst) * ln.dstByte
             m0 == [m EXCEPT ![d] = from[s]]
             m1 == [m0 EXCEPT ![d + 1] = (IF ln.vector THEN row ELSE m0)[s + 1]]
             m2 == [m1 EXCEPT ![d + 2] = (IF ln.vector THEN row ELSE m1)[s + 2]]
         IN  CopyChannels(m2, row, a, ln, x + 1)

RECURSIVE CopyChannelLines(_, _, _, _, _, _, _)
CopyChannelLines(m, a, y, nDstStep, nSrcStep, srcV, shape) ==
    IF y >= a.nHeight.lo THEN m
    ELSE LET ln == Lines(SrcLine(a, y, nSrcStep, srcV.multiplier, srcV.offset),
                         DstLine(a, y, nDstStep, 1, 0),
                         shape.srcByte, shape.dstByte, shape.ignoreAlpha, shape.vector)
         IN  CopyChannelLines(CopyChannels(m, m, a, ln, 0), a, y + 1,
                              nDstStep, nSrcStep, srcV, shape)

\* srcByte = 3, dstByte = 4
freerdp_image_copy_bgr24_bgrx32(m, a, nDstStep, nSrcStep, srcV, build) ==
    CopyChannelLines(m, a, 0, nDstStep, nSrcStep, srcV, Lines(0, 0, 3, 4, TRUE, build.vector))

\* srcByte = 4, dstByte = 4
freerdp_image_copy_bgrx32_bgrx32(m, a, nDstStep, nSrcStep, srcV, build) ==
    CopyChannelLines(m, a, 0, nDstStep, nSrcStep, srcV, Lines(0, 0, 4, 4, TRUE, build.vector))

\* srcByte = 4 and dstByte = 4 whatever the formats are; FreeRDPWriteColorIgnoreAlpha_int
freerdp_image_copy_generic(m, a, palette, nDstStep, nSrcStep, srcV, build) ==
    ConvertLines(m, a, palette, 0, nDstStep, nSrcStep, srcV,
                 Lines(0, 0, 4, 4, TRUE, build.vector))

freerdp_image_copy_no_overlap_dst_alpha(m, a, palette, nDstStep, nSrcStep, srcV, build) ==
    CASE a.SrcFormat = "BGR24" /\ a.DstFormat \in {"BGRX32", "BGRA32"} ->
            freerdp_image_copy_bgr24_bgrx32(m, a, nDstStep, nSrcStep, srcV, build)
      [] a.SrcFormat \in {"BGRX32", "BGRA32"} /\ a.DstFormat \in {"BGRX32", "BGRA32"} ->
            freerdp_image_copy_bgrx32_bgrx32(m, a, nDstStep, nSrcStep, srcV, build)
      [] OTHER -> freerdp_image_copy_generic(m, a, palette, nDstStep, nSrcStep, srcV, build)

\* srcVOffset and srcVMultiplier
SrcV(flags, nHeight, nSrcStep) ==
    IF "FREERDP_FLIP_VERTICAL" \in flags
    THEN [multiplier |-> -1, offset |-> (nHeight - 1) * nSrcStep]
    ELSE [multiplier |-> 1, offset |-> 0]

\* (flags & FREERDP_KEEP_DST_ALPHA) != 0 && FreeRDPColorHasAlpha(DstFormat)
KeepDstAlpha(a) == "FREERDP_KEEP_DST_ALPHA" \in a.flags /\ FreeRDPColorHasAlpha(a.DstFormat)

\* the branch of the same-format copy for the origins given
Direction(a) ==
    CASE a.nYDst < a.nYSrc -> "down"
      [] a.nYDst > a.nYSrc -> "up"
      [] a.nXSrc > a.nXDst -> "left"
      [] a.nXSrc < a.nXDst -> "right"
      [] OTHER -> "equal"

freerdp_image_copy_overlap(m, a, palette, build) ==
    LET asserted == Overlapping(a, a.nDstStep, a.nSrcStep)
        nWidth == a.nWidth.lo
        nHeight == a.nHeight.lo
        nDstStep == ResolveStep(a.nDstStep, nWidth, a.DstFormat)
        nSrcStep == ResolveStep(a.nSrcStep, nWidth, a.SrcFormat)
        srcV == SrcV(a.flags, nHeight, nSrcStep)
        Early(ok) == Outcome(m, Status(ok), Path("overlap", "none", asserted, 0, 0))
        Done(after, branch) ==
            Outcome(after, Status(TRUE), Path("overlap", branch, asserted, nDstStep, nSrcStep))
    IN  IF ~asserted /\ build.asserts
        THEN Outcome(m, Aborted, Path("overlap", "none", FALSE, 0, 0))
        ELSE IF IsZero(a.nWidth) \/ IsZero(a.nHeight) THEN Early(TRUE)
        ELSE IF ExceedsINT32_MAX(a.nHeight) \/ ExceedsINT32_MAX(a.nWidth) THEN Early(FALSE)
        ELSE IF a.pDstData = NULL \/ a.pSrcData = NULL THEN Early(FALSE)
        ELSE IF KeepDstAlpha(a)
        THEN Done(freerdp_image_copy_no_overlap_dst_alpha(m, a, palette, nDstStep, nSrcStep,
                                                          srcV, build), "dst_alpha")
        ELSE IF FreeRDPAreColorFormatsEqualNoAlpha_int(a.SrcFormat, a.DstFormat)
        THEN CASE Direction(a) = "down" ->
                    Done(CopyLines(m, a, Ascending(nHeight), nDstStep, nSrcStep, srcV,
                                   FALSE, build.libc), "down")
               [] Direction(a) = "up" ->
                    Done(CopyLines(m, a, Descending(nHeight), nDstStep, nSrcStep, srcV,
                                   FALSE, build.libc), "up")
               [] Direction(a) = "left" ->
                    Done(CopyLines(m, a, Ascending(nHeight), nDstStep, nSrcStep, srcV,
                                   TRUE, build.libc), "left")
               [] Direction(a) = "right" ->
                    Done(CopyLines(m, a, Descending(nHeight), nDstStep, nSrcStep, srcV,
                                   TRUE, build.libc), "right")
               [] OTHER -> Done(m, "equal")
        ELSE Done(ConvertLines(m, a, palette, 0, nDstStep, nSrcStep, srcV,
                               Lines(0, 0, FreeRDPGetBytesPerPixel(a.SrcFormat),
                                     FreeRDPGetBytesPerPixel(a.DstFormat), FALSE, FALSE)),
                  "convert")

\* primitives_get(): the handle of the process-wide primitives
primitives_get == 1

\* prims->copy_no_overlap, the backend of the non-overlapping copy: the memory it leaves
\* and whether it reports PRIMITIVES_SUCCESS.  Rows of one format are copied with memcpy,
\* other pixels converted one by one, without their alpha where the destination keeps its
\* own.  Its pointers are restrict-qualified.
copy_no_overlap(m, a, palette, build) ==
    LET nWidth == a.nWidth.lo
        nHeight == a.nHeight.lo
        nDstStep == ResolveStep(a.nDstStep, nWidth, a.DstFormat)
        nSrcStep == ResolveStep(a.nSrcStep, nWidth, a.SrcFormat)
        srcV == SrcV(a.flags, nHeight, nSrcStep)
    IN  IF ExceedsINT32_MAX(a.nHeight) \/ ExceedsINT32_MAX(a.nWidth)
        THEN [mem |-> m, success |-> FALSE]
        ELSE IF a.pDstData = NULL \/ a.pSrcData = NULL THEN [mem |-> m, success |-> FALSE]
        ELSE IF IsZero(a.nWidth) \/ IsZero(a.nHeight) THEN [mem |-> m, success |-> TRUE]
        ELSE IF ~KeepDstAlpha(a) /\ FreeRDPAreColorFormatsEqualNoAlpha_int(a.SrcFormat, a.DstFormat)
        THEN [mem |-> CopyLines(m, a, Ascending(nHeight), nDstStep, nSrcStep, srcV,
                                FALSE, build.libc),
              success |-> TRUE]
        ELSE [mem |-> ConvertLines(m, a, palette, 0, nDstStep, nSrcStep, srcV,
                                   Lines(0, 0, FreeRDPGetBytesPerPixel(a.SrcFormat),
                                         FreeRDPGetBytesPerPixel(a.DstFormat),
                                         KeepDstAlpha(a), build.vector)),
              success |-> TRUE]

\* return prims->copy_no_overlap(...) == PRIMITIVES_SUCCESS
BackendOutcome(backend, asserted) ==
    Outcome(backend.mem, Status(backend.success), Path("no_overlap", "backend", asserted, 0, 0))

freerdp_image_copy_no_overlap(m, a, palette, build) ==
    IF Overlapping(a, a.nDstStep, a.nSrcStep) /\ build.asserts
    THEN Outcome(m, Aborted, Path("no_overlap", "none", FALSE, 0, 0))
    ELSE BackendOutcome(copy_no_overlap(m, a, palette, build),
                        ~Overlapping(a, a.nDstStep, a.nSrcStep))

\* freerdp_image_copy handing the strides on as it received them
freerdp_image_copy_unresolved(m, a, palette, build) ==
    LET nDstStep == ResolveStep(a.nDstStep, a.nWidth.lo, a.DstFormat)
        nSrcStep == ResolveStep(a.nSrcStep, a.nWidth.lo, a.SrcFormat)
        ovl == Overlapping(a, nDstStep, nSrcStep)
        Early(ok) == Outcome(m, Status(ok), NoPath)
        dispatched == IF ovl
                      THEN freerdp_image_copy_overlap(m, a, palette, build)
                      ELSE freerdp_image_copy_no_overlap(m, a, palette, build)
    IN  IF ExceedsINT32_MAX(a.nHeight) \/ ExceedsINT32_MAX(a.nWidth) THEN Early(FALSE)
        ELSE IF a.pDstData = NULL \/ a.pSrcData = NULL THEN Early(FALSE)
        ELSE IF IsZero(a.nWidth) \/ IsZero(a.nHeight) THEN Early(TRUE)
        ELSE [dispatched EXCEPT !.path.dstStep = nDstStep, !.path.srcStep = nSrcStep]

freerdp_image_copy(m, a, palette, build) ==
    LET nDstStep == ResolveStep(a.nDstStep, a.nWidth.lo, a.DstFormat)
        nSrcStep == ResolveStep(a.nSrcStep, a.nWidth.lo, a.SrcFormat)
        resolved == [a EXCEPT !.nDstStep = nDstStep, !.nSrcStep = nSrcStep]
        ovl == Overlapping(a, nDstStep, nSrcStep)
        Early(ok) == Outcome(m, Status(ok), NoPath)
        dispatched == IF ovl
                      THEN freerdp_image_copy_overlap(m, resolved, palette, build)
                      ELSE freerdp_image_copy_no_overlap(m, resolved, palette, build)
    IN  IF ExceedsINT32_MAX(a.nHeight) \/ ExceedsINT32_MAX(a.nWidth) THEN Early(FALSE)
        ELSE IF a.pDstData = NULL \/ a.pSrcData = NULL THEN Early(FALSE)
        ELSE IF IsZero(a.nWidth) \/ IsZero(a.nHeight) THEN Early(TRUE)
        ELSE [dispatched EXCEPT !.path.dstStep = nDstStep, !.path.srcStep = nSrcStep]

(***************************************************************************)
(* Fill, glyph expansion and the monochrome stencil.  Their widths and     *)
(* heights stay small and are plain numbers.                               *)
(***************************************************************************)
\* if (nDstStep == 0) nDstStep = (nXDst + nWidth) * FreeRDPGetBytesPerPixel(DstFormat)
FillStep(nDstStep, nXDst, nWidth, DstFormat) ==
    IF nDstStep = 0 THEN (nXDst + nWidth) * FreeRDPGetBytesPerPixel(DstFormat) ELSE nDstStep

\* &pDstData[(y + nYDst) * nDstStep + 1ULL * nXDst * bpp], line y of the rectangle without
\* the offset of its first column
FillLine_unshifted(pDstData, nDstStep, nXDst, nYDst, bpp, y) ==
    pDstData + (y + nYDst) * nDstStep

\* &pDstData[(y + nYDst) * nDstStep + 1ULL * nXDst * bpp]
FillLine(pDstData, nDstStep, nXDst, nYDst, bpp, y) ==
    pDstData + (y + nYDst) * nDstStep + nXDst * bpp

\* for (x = 0; x < nWidth; x++) FreeRDPWriteColor_int(&pFirstDstLine[(x + nXDst) * bpp], ...)
RECURSIVE FillFirstLine(_, _, _, _)
FillFirstLine(m, f, pFirstDstLine, x) ==
    IF x >= f.nWidth THEN m
    ELSE FillFirstLine(FreeRDPWriteColor_int(m, pFirstDstLine
                                                + (x + f.nXDst) * FreeRDPGetBytesPerPixel(f.DstFormat),
                                             f.DstFormat, f.color).mem,
                       f, pFirstDstLine, x + 1)

\* for (y = 1; y < nHeight; y++) memcpy(pDstLine, pFirstDstLineXOffset, nWidth * bpp)
RECURSIVE FillOtherLines(_, _, _, _, _)
FillOtherLines(m, f, nDstStep, y, libc) ==
    IF y >= f.nHeight THEN m
    ELSE LET bpp == FreeRDPGetBytesPerPixel(f.DstFormat)
         IN  FillOtherLines(memcpy(m, FillLine(f.pDstData, nDstStep, f.nXDst, f.nYDst, bpp, y),
                                   FillLine(f.pDstData, nDstStep, f.nXDst, f.nYDst, bpp, 0),
                                   f.nWidth * bpp, libc),
                            f, nDstStep, y + 1, libc)

freerdp_image_fill(m, f, libc) ==
    IF f.nWidth = 0 \/ f.nHeight = 0
    THEN Outcome(m, Status(TRUE), NoPath)
    ELSE Outcome(FillOtherLines(FillFirstLine(m, f,
                                    f.pDstData + f.nYDst
                                        * FillStep(f.nDstStep, f.nXDst, f.nWidth, f.DstFormat),
                                    0),
                                f, FillStep(f.nDstStep, f.nXDst, f.nWidth, f.DstFormat), 1, libc),
                 Status(TRUE),
                 Path("none", "fill", TRUE,
                      FillStep(f.nDstStep, f.nXDst, f.nWidth, f.DstFormat), 0))

\* const UINT32 scanline = (width + 7) / 8
GlyphScanline(width) == (width + 7) \div 8

\* the bits of a byte counted from the wrong end: *srcp & (0x01 << (x % 8))
GlyphBitSet_lsb(byte, x) == Shr(byte, x % 8) % 2 = 1

\* (*srcp & (0x80 >> (x % 8))) != 0
GlyphBitSet(byte, x) == Shr(byte, 7 - (x % 8)) % 2 = 1

\* the inner loop over x: dstp runs on from pixel to pixel, srcp moves on after every
\* eighth pixel
RECURSIVE GlyphPixels(_, _, _, _, _)
GlyphPixels(dstData, data, width, srcp, x) ==
    IF x >= width THEN dstData
    ELSE GlyphPixels(Append(dstData, IF GlyphBitSet(data[srcp], x) THEN 255 ELSE 0),
                     data, width,
                     IF (x + 1) % 8 = 0 /\ x # 0 THEN srcp + 1 ELSE srcp,
                     x + 1)

\* the outer loop over y: srcp = &data[y * scanline]; the first byte of data is data[1]
RECURSIVE GlyphLines(_, _, _, _, _)
GlyphLines(dstData, data, width, height, y) ==
    IF y >= height THEN dstData
    ELSE GlyphLines(GlyphPixels(dstData, data, width, y * GlyphScanline(width) + 1, 0),
                    data, width, height, y + 1)

\* data is the sequence of the bytes of the glyph; the result is the sequence of the bytes
\* of dstData, or NULL when the allocation failed
freerdp_glyph_convert(width, height, data, allocated) ==
    IF ~allocated THEN [null |-> TRUE]
    ELSE [data |-> GlyphLines(<< >>, data, width, height, 0)]

\* const UINT32 monoStep = (nWidth + 7) / 8
MonoStep(nWidth) == (nWidth + 7) \div 8

\* the colour written for a bit of the mask, the other way round
MonoColor_swapped(monoPixel, backColor, foreColor) ==
    IF monoPixel THEN foreColor ELSE backColor

\* if (monoPixel) write backColor else write foreColor
MonoColor(monoPixel, backColor, foreColor) ==
    IF monoPixel THEN backColor ELSE foreColor

\* the inner loop over x: monoBit moves one bit to the right with every pixel and monoBits
\* one byte on when it has left the byte
RECURSIVE MonoPixels(_, _, _, _, _, _)
MonoPixels(m, c, pDstLine, monoBits, monoBit, x) ==
    IF x >= c.nWidth THEN m
    ELSE LET pDstPixel == pDstLine + (c.nXDst + x) * FreeRDPGetBytesPerPixel(c.DstFormat)
             monoPixel == (m[monoBits] \div monoBit) % 2 = 1
             after == FreeRDPWriteColor_int(m, pDstPixel, c.DstFormat,
                                            MonoColor(monoPixel, c.backColor, c.foreColor)).mem
         IN  IF monoBit \div 2 = 0
             THEN MonoPixels(after, c, pDstLine, monoBits + 1, 128, x + 1)
             ELSE MonoPixels(after, c, pDstLine, monoBits, monoBit \div 2, x + 1)

\* the outer loop over y
RECURSIVE MonoLines(_, _, _, _)
MonoLines(m, c, nDstStep, y) ==
    IF y >= c.nHeight THEN m
    ELSE MonoLines(MonoPixels(m, c, c.pDstData + (c.nYDst + y) * nDstStep,
                              c.pSrcData + MonoStep(c.nWidth) * y, 128, 0),
                   c, nDstStep, y + 1)

freerdp_image_copy_from_monochrome(m, c) ==
    IF c.pDstData = NULL \/ c.pSrcData = NULL \/ ~c.palette
    THEN Outcome(m, Status(FALSE), NoPath)
    ELSE Outcome(MonoLines(m, c, IF c.nDstStep = 0
                                 THEN FreeRDPGetBytesPerPixel(c.DstFormat) * c.nWidth
                                 ELSE c.nDstStep, 0),
                 Status(TRUE),
                 Path("none", "monochrome", TRUE,
                      IF c.nDstStep = 0
                      THEN FreeRDPGetBytesPerPixel(c.DstFormat) * c.nWidth
                      ELSE c.nDstStep, 0))

(***************************************************************************)
(* The icon decoder.  Its outcome is a set: where the code's behaviour is  *)
(* undefined, every outcome a build can produce is in it.  The extents of  *)
(* the source buffers a call has read are kept with the path it took.      *)
(***************************************************************************)
\* (a + (b - 1)) / b
div_ceil(a, b) == (a + (b - 1)) \div b

\* b * div_ceil(a, b)
round_up(a, b) == b * div_ceil(a, b)

\* the path of a decoder: the step it ended in, the destination stride it used, and how
\* many bytes from the start of the colour (or XOR) payload and of the mask (or AND mask)
\* it has read
DecoderPath(branch, dstStep, colorRead, maskRead) ==
    [asserted |-> TRUE, branch |-> branch, colorRead |-> colorRead, copy |-> "none",
     dstStep |-> dstStep, maskRead |-> maskRead, srcStep |-> 0]

\* switch (bpp): the DIB format of the icon, "NONE" where the switch returns FALSE
IconFormat(bpp) ==
    CASE bpp = 8 -> "RGB8"
      [] bpp = 16 -> "RGB15"
      [] bpp = 24 -> "RGB24"
      [] bpp = 32 -> "BGRA32"
      [] OTHER -> "NONE"

\* nWidth * nHeight of two UINT16, an int after the integer promotions: the 32 bits of the
\* product as two halves of 16 bits
Product16(a, b) ==
    LET s == ((a * (b \div 256)) % 256) * 256 + a * (b % 256)
    IN  [high |-> (a * (b \div 256)) \div 256 + s \div 65536, low |-> s % 65536]

\* p * k in UINT32 arithmetic: the low 32 bits of the product
TimesUINT32(p, k) ==
    [high |-> (p.high * k + (p.low * k) \div 65536) % 65536, low |-> (p.low * k) % 65536]

\* the product p * k without the wrap exceeds the UINT16 n
DemandExceeds(p, k, n) == p.high * k + (p.low * k) \div 65536 > 0 \/ (p.low * k) % 65536 > n

\* cbBitsColor < nWidth * nHeight * FreeRDPGetBytesPerPixel(format): the answers the test
\* can give.  The int product nWidth * nHeight is undefined from 2^31 on, where the test
\* may come out either way.
IconColorTooShort(c, format) ==
    IF Product16(c.nWidth, c.nHeight).high >= 32768
    THEN BOOLEAN
    ELSE { \E q \in {TimesUINT32(Product16(c.nWidth, c.nHeight),
                                 FreeRDPGetBytesPerPixel(format))} :
                q.high > 0 \/ q.low > c.cbBitsColor }

\* fill_gdi_palette_for_icon: BGRX32 entries read from the colour table, zero elsewhere
fill_gdi_palette_for_icon(m, colorTable, cbColorTable) ==
    [format |-> "BGRX32",
     palette |-> [i \in 0 .. 255 |->
                    IF cbColorTable % 4 = 0 /\ cbColorTable \div 4 <= 256
                       /\ i < cbColorTable \div 4
                    THEN FreeRDPReadColor_int(m, colorTable + 4 * i, "BGRX32")
                    ELSE U32(0, 0, 0, 0)]]

\* stride = round_up(div_ceil(nWidth, 8), 4)
IconMaskStride(nWidth) == round_up(div_ceil(nWidth, 8), 4)

\* dstBuf of the alpha pass: it starts at pDstData and advances by dstBpp with every
\* pixel, through the lines as well
IconAlphaDst(c, x, y) ==
    c.pDstData + (y * c.nWidth + x) * FreeRDPGetBytesPerPixel(c.DstFormat)

\* maskByte of the alpha pass: &bitsMask[stride * (nHeight - 1 - y)], advanced once the
\* eight bits of a byte are used
IconMaskByte(c, x, y) ==
    c.bitsMask + IconMaskStride(c.nWidth) * (c.nHeight - 1 - y) + x \div 8

\* (*maskByte & nextBit) ? 0x00 : 0xFF
IconAlpha(byte, x) == IF Shr(byte, 7 - (x % 8)) % 2 = 1 THEN 0 ELSE 255

\* read color back, add alpha and write it back
IconAlphaPixel(m, c, palette, dstBuf, alpha) ==
    LET s == FreeRDPSplitColor(FreeRDPReadColor_int(m, dstBuf, c.DstFormat), c.DstFormat,
                               palette)
    IN  FreeRDPWriteColor_int(m, dstBuf, c.DstFormat,
                              FreeRDPGetColor(c.DstFormat, s.r, s.g, s.b, alpha)).mem

RECURSIVE IconAlphaPixels(_, _, _, _, _)
IconAlphaPixels(m, c, palette, x, y) ==
    IF x >= c.nWidth THEN m
    ELSE IconAlphaPixels(IconAlphaPixel(m, c, palette, IconAlphaDst(c, x, y),
                                        IconAlpha(m[IconMaskByte(c, x, y)], x)),
                         c, palette, x + 1, y)

RECURSIVE IconAlphaLines(_, _, _, _)
IconAlphaLines(m, c, palette, y) ==
    IF y >= c.nHeight THEN m
    ELSE IconAlphaLines(IconAlphaPixels(m, c, palette, 0, y), c, palette, y + 1)

\* how many bytes of bitsMask the alpha pass reads, counted from the start of the mask
IconMaskRead(c) ==
    IF c.nWidth = 0 \/ c.nHeight = 0 THEN 0
    ELSE IconMaskStride(c.nWidth) * (c.nHeight - 1) + (c.nWidth - 1) \div 8 + 1

\* the arguments of the copy of the colour pass: source stride and origin 0, lines flipped
IconCopyArgs(c, format) ==
    CopyArgs(c.pDstData, c.DstFormat, c.nDstStep, c.nXDst, c.nYDst, UINT32(0, c.nWidth),
             UINT32(0, c.nHeight), c.bitsColor, format, 0, 0, 0, {"FREERDP_FLIP_VERTICAL"})

\* the bytes of bitsColor the colour pass reads
IconColorRead(c, format) == c.nWidth * c.nHeight * FreeRDPGetBytesPerPixel(format)

\* what follows the copy of the colour pass: failure if the copy failed, else the alpha
\* pass if the destination has alpha and a mask length was given
IconAfterCopy(c, format, palette, copy) ==
    IF copy.ret = Aborted
    THEN {Outcome(copy.mem, Aborted, DecoderPath("copy", 0, 0, 0))}
    ELSE IF copy.ret = Status(FALSE)
    THEN {Outcome(copy.mem, Status(FALSE), DecoderPath("copy", 0, 0, 0))}
    ELSE IF FreeRDPColorHasAlpha(c.DstFormat) /\ c.cbBitsMask # 0
    THEN IF c.bitsMask = NULL
         THEN {Outcome(copy.mem, Aborted, DecoderPath("alpha", 0, IconColorRead(c, format), 0))}
         ELSE {Outcome(IconAlphaLines(copy.mem, c, palette, 0), Status(TRUE),
                       DecoderPath("alpha", 0, IconColorRead(c, format), IconMaskRead(c)))}
    ELSE {Outcome(copy.mem, Status(TRUE), DecoderPath("color", 0, IconColorRead(c, format), 0))}

IconCopy(m, c, format, palette, build) ==
    IconAfterCopy(c, format, palette,
                  freerdp_image_copy_no_overlap(m, IconCopyArgs(c, format), palette, build))

\* the icon once the length of the colour payload was accepted.  A payload shorter than
\* the geometry is read past its end by the copy, which is undefined: the call may fault
\* or go on with what lies behind the payload.
IconDecode(m, c, format, build) ==
    IF DemandExceeds(Product16(c.nWidth, c.nHeight), FreeRDPGetBytesPerPixel(format),
                     c.cbBitsColor)
    THEN { Outcome(m, r, DecoderPath("past bitsColor", 0, c.cbBitsColor + 1, 0)) :
            r \in {Aborted, Status(TRUE)} }
    ELSE IconCopy(m, c, format, fill_gdi_palette_for_icon(m, c.colorTable, c.cbColorTable),
                  build)

freerdp_image_copy_from_icon_data(m, c, build) ==
    IF c.pDstData = NULL \/ c.bitsColor = NULL
    THEN {Outcome(m, Status(FALSE), DecoderPath("null", 0, 0, 0))}
    ELSE IF IconFormat(c.bpp) = "NONE"
    THEN {Outcome(m, Status(FALSE), DecoderPath("bpp", 0, 0, 0))}
    ELSE UNION { IF short
                 THEN {Outcome(m, Status(FALSE), DecoderPath("short", 0, 0, 0))}
                 ELSE IconDecode(m, c, IconFormat(c.bpp), build) :
                    short \in IconColorTooShort(c, IconFormat(c.bpp)) }

(***************************************************************************)
(* The pointer decoder.  palette is TRUE where the caller passes one.      *)
(***************************************************************************)
\* the checkerboard with black and white exchanged: (x + y) & 1 ? 0xFF : 0x00
freerdp_image_inverted_pointer_color_odd(x, y, format) ==
    FreeRDPGetColor(format, IF (x + y) % 2 = 1 THEN 255 ELSE 0,
                    IF (x + y) % 2 = 1 THEN 255 ELSE 0, IF (x + y) % 2 = 1 THEN 255 ELSE 0, 255)

\* BYTE fill = (x + y) & 1 ? 0x00 : 0xFF; FreeRDPGetColor(format, fill, fill, fill, 0xFF)
freerdp_image_inverted_pointer_color(x, y, format) ==
    FreeRDPGetColor(format, IF (x + y) % 2 = 1 THEN 0 ELSE 255,
                    IF (x + y) % 2 = 1 THEN 0 ELSE 255, IF (x + y) % 2 = 1 THEN 0 ELSE 255, 255)

\* the palette a caller passes: black, white and colours in between
PointerPalette ==
    [format |-> "XRGB32",
     palette |-> [i \in 0 .. 255 |->
                    IF i = 0 THEN U32(0, 0, 0, 0)
                    ELSE IF i = 255 THEN U32(0, 255, 255, 255)
                    ELSE U32(0, i, 255 - i, (i * 7) % 256)]]

\* the path of a pointer decode: that of a decoder, and the byte count of the memset of a
\* row, bytesPerPixel * (nWidth - nXDst) in UINT32 arithmetic; where the difference wraps,
\* bytes is the count less bytesPerPixel * 2^32
PointerPath(branch, p, nDstStep, xorRead, andRead) ==
    [asserted |-> TRUE, branch |-> branch, colorRead |-> xorRead, copy |-> "none",
     dstStep |-> nDstStep, maskRead |-> andRead, srcStep |-> 0,
     zeroCount |-> [bytes |-> FreeRDPGetBytesPerPixel(p.DstFormat) * (p.nWidth - p.nXDst),
                    wraps |-> p.nXDst > p.nWidth]]

\* andStep = (nWidth + 7) / 8; andStep += (andStep % 2)
PointerMaskStep(nWidth) == ((nWidth + 7) \div 8) + (((nWidth + 7) \div 8) % 2)

\* xorStep = nWidth * xorBytesPerPixel; xorStep += (xorStep % 2)
PointerXorStep(nWidth, xorBpp) ==
    (nWidth * Shr(xorBpp, 3)) + ((nWidth * Shr(xorBpp, 3)) % 2)

\* vFlip = (xorBpp == 1) ? FALSE : TRUE
PointerVFlip(xorBpp) == xorBpp # 1

\* &mask[step * y], or &mask[step * (nHeight - y - 1)] with the flip
PointerRow(mask, step, nHeight, y, vFlip) ==
    mask + step * (IF vFlip THEN nHeight - y - 1 ELSE y)

\* (*bits & bit) ? 1 : 0 for pixel x of the row, bit running from 0x80 down
PointerBit(m, row, x) == Shr(m[row + x \div 8], 7 - (x % 8)) % 2

\* &pDstData[(nYDst + y) * nDstStep + nXDst * bytesPerPixel], advanced by x pixels
PointerDst(p, nDstStep, x, y) ==
    p.pDstData + ((p.nYDst + y) * nDstStep) + ((p.nXDst + x) * FreeRDPGetBytesPerPixel(p.DstFormat))

\* how many bytes of a mask of rows of step bytes a decode of one bit per pixel reads
PointerBitsRead(p, step) ==
    IF p.nWidth = 0 \/ p.nHeight = 0 THEN 0
    ELSE (step * (p.nHeight - 1)) + ((p.nWidth - 1) \div 8) + 1

\* the colour of a pixel of the 1-bit path
Pointer1bppColor(andPixel, xorPixel, x, y, DstFormat) ==
    CASE andPixel = 0 /\ xorPixel = 0 -> FreeRDPGetColor(DstFormat, 0, 0, 0, 255)
      [] andPixel = 0 /\ xorPixel = 1 -> FreeRDPGetColor(DstFormat, 255, 255, 255, 255)
      [] andPixel = 1 /\ xorPixel = 0 -> FreeRDPGetColor(DstFormat, 0, 0, 0, 0)
      [] OTHER -> freerdp_image_inverted_pointer_color(x, y, DstFormat)

RECURSIVE Pointer1bppPixels(_, _, _, _, _)
Pointer1bppPixels(m, p, nDstStep, x, y) ==
    IF x >= p.nWidth THEN m
    ELSE Pointer1bppPixels(
            FreeRDPWriteColor_int(
                m, PointerDst(p, nDstStep, x, y), p.DstFormat,
                Pointer1bppColor(
                    PointerBit(m, PointerRow(p.andMask, PointerMaskStep(p.nWidth), p.nHeight,
                                             y, PointerVFlip(p.xorBpp)), x),
                    PointerBit(m, PointerRow(p.xorMask, PointerMaskStep(p.nWidth), p.nHeight,
                                             y, PointerVFlip(p.xorBpp)), x),
                    x, y, p.DstFormat)).mem,
            p, nDstStep, x + 1, y)

RECURSIVE Pointer1bppLines(_, _, _, _)
Pointer1bppLines(m, p, nDstStep, y) ==
    IF y >= p.nHeight THEN m
    ELSE Pointer1bppLines(Pointer1bppPixels(m, p, nDstStep, 0, y), p, nDstStep, y + 1)

\* the result of a sub-path: the memory, the return value, the bytes read of either mask
PointerResult(m, ok, branch, xorRead, andRead) ==
    [andRead |-> andRead, branch |-> branch, mem |-> m, ok |-> ok, xorRead |-> xorRead]

freerdp_image_copy_from_pointer_data_1bpp(m, p, nDstStep) ==
    IF p.xorMask = NULL \/ p.xorMaskLength = 0 THEN PointerResult(m, FALSE, "xorMask", 0, 0)
    ELSE IF p.andMask = NULL \/ p.andMaskLength = 0
    THEN PointerResult(m, FALSE, "andMask", 0, 0)
    ELSE IF PointerMaskStep(p.nWidth) * p.nHeight > p.xorMaskLength
    THEN PointerResult(m, FALSE, "xorMaskLength", 0, 0)
    ELSE IF PointerMaskStep(p.nWidth) * p.nHeight > p.andMaskLength
    THEN PointerResult(m, FALSE, "andMaskLength", 0, 0)
    ELSE PointerResult(Pointer1bppLines(m, p, nDstStep, 0), TRUE, "1bpp",
                       PointerBitsRead(p, PointerMaskStep(p.nWidth)),
                       PointerBitsRead(p, PointerMaskStep(p.nWidth)))

\* the format the XOR pixels of a depth are read in
PointerXorFormat(xorBpp, palette) ==
    CASE xorBpp = 32 -> "BGRA32"
      [] xorBpp = 16 -> "RGB15"
      [] xorBpp = 8 -> palette.format
      [] OTHER -> "BGR24"

\* xorPixel as read: palette->palette[xorBits[0]] at 8 bits, FreeRDPReadColor_int otherwise
PointerXorPixel(m, xorBits, xorBpp, palette) ==
    IF xorBpp = 8 THEN palette.palette[m[xorBits]]
    ELSE FreeRDPReadColor_int(m, xorBits, PointerXorFormat(xorBpp, palette))

\* the AND rule that leaves every pixel as it is
PointerApplyAnd_never(xorPixel, andPixel, x, y) == xorPixel

\* if (andPixel): 0xFF000000 becomes 0x00000000, 0xFFFFFFFF the inverted colour
PointerApplyAnd(xorPixel, andPixel, x, y) ==
    IF andPixel = 1
    THEN IF xorPixel = U32(255, 0, 0, 0) THEN U32(0, 0, 0, 0)
         ELSE IF xorPixel = U32(255, 255, 255, 255)
         THEN freerdp_image_inverted_pointer_color(x, y, "ARGB32")
         ELSE xorPixel
    ELSE xorPixel

\* the colour written for pixel x of a row: read, normalised, masked, converted
PointerXbppColor(m, p, palette, xorRow, andRow, x, y) ==
    FreeRDPConvertColor(
        PointerApplyAnd(
            FreeRDPConvertColor(
                PointerXorPixel(m, xorRow + x * Shr(p.xorBpp, 3), p.xorBpp, palette),
                PointerXorFormat(p.xorBpp, palette), "ARGB32", palette),
            IF p.andMask = NULL THEN 0 ELSE PointerBit(m, andRow, x), x, y),
        "ARGB32", p.DstFormat, palette)

RECURSIVE PointerXbppPixels(_, _, _, _, _, _)
PointerXbppPixels(m, p, palette, nDstStep, x, y) ==
    IF x >= p.nWidth THEN m
    ELSE PointerXbppPixels(
            FreeRDPWriteColor_int(
                m, PointerDst(p, nDstStep, x, y), p.DstFormat,
                PointerXbppColor(
                    m, p, palette,
                    PointerRow(p.xorMask, PointerXorStep(p.nWidth, p.xorBpp), p.nHeight, y,
                               PointerVFlip(p.xorBpp)),
                    PointerRow(p.andMask, PointerMaskStep(p.nWidth), p.nHeight, y,
                               PointerVFlip(p.xorBpp)),
                    x, y)).mem,
            p, palette, nDstStep, x + 1, y)

RECURSIVE PointerXbppLines(_, _, _, _, _)
PointerXbppLines(m, p, palette, nDstStep, y) ==
    IF y >= p.nHeight THEN m
    ELSE PointerXbppLines(PointerXbppPixels(m, p, palette, nDstStep, 0, y), p, palette,
                          nDstStep, y + 1)

\* how many bytes of the XOR mask a decode of whole bytes per pixel reads
PointerXorRead(p) ==
    IF p.nWidth = 0 \/ p.nHeight = 0 THEN 0
    ELSE (PointerXorStep(p.nWidth, p.xorBpp) * (p.nHeight - 1)) + (p.nWidth * Shr(p.xorBpp, 3))

freerdp_image_copy_from_pointer_data_xbpp(m, p, palette, nDstStep) ==
    IF p.xorMask = NULL \/ p.xorMaskLength = 0 THEN PointerResult(m, FALSE, "xorMask", 0, 0)
    ELSE IF p.xorBpp = 8 /\ ~p.palette THEN PointerResult(m, FALSE, "palette", 0, 0)
    ELSE IF PointerXorStep(p.nWidth, p.xorBpp) * p.nHeight > p.xorMaskLength
    THEN PointerResult(m, FALSE, "xorMaskLength", 0, 0)
    ELSE IF p.andMask # NULL /\ PointerMaskStep(p.nWidth) * p.nHeight > p.andMaskLength
    THEN PointerResult(m, FALSE, "andMaskLength", 0, 0)
    ELSE PointerResult(PointerXbppLines(m, p, palette, nDstStep, 0), TRUE, "xbpp",
                       PointerXorRead(p),
                       IF p.andMask = NULL THEN 0
                       ELSE PointerBitsRead(p, PointerMaskStep(p.nWidth)))

\* memset(pDstLine, 0, n): n bytes from address dst are zero
memset_zero(m, dst, n) == [i \in DOMAIN m |-> IF i >= dst /\ i < dst + n THEN 0 ELSE m[i]]

\* for (y = nYDst; y < nHeight; y++) memset(&pDstData[y * nDstStep + nXDst * bytesPerPixel],
\*                                          0, bytesPerPixel * (nWidth - nXDst))
RECURSIVE PointerZeroFill(_, _, _, _)
PointerZeroFill(m, p, nDstStep, y) ==
    IF y >= p.nHeight THEN m
    ELSE PointerZeroFill(
            memset_zero(m, p.pDstData + (y * nDstStep)
                               + (p.nXDst * FreeRDPGetBytesPerPixel(p.DstFormat)),
                        FreeRDPGetBytesPerPixel(p.DstFormat) * (p.nWidth - p.nXDst)),
            p, nDstStep, y + 1)

\* switch (xorBpp): 1, then 8, 16, 24 and 32, then "failed to convert"
PointerDispatch(zeroed, p, palette, nDstStep) ==
    CASE p.xorBpp = 1 -> freerdp_image_copy_from_pointer_data_1bpp(zeroed, p, nDstStep)
      [] p.xorBpp \in {8, 16, 24, 32} ->
            freerdp_image_copy_from_pointer_data_xbpp(zeroed, p, palette, nDstStep)
      [] OTHER -> PointerResult(zeroed, FALSE, "xorBpp", 0, 0)

\* the outcome a sub-path's result is for the caller
PointerOutcome(result, p, nDstStep) ==
    Outcome(result.mem, Status(result.ok),
            PointerPath(result.branch, p, nDstStep, result.xorRead, result.andRead))

\* Where nXDst > nWidth the UINT32 difference nWidth - nXDst wraps and the memset of the
\* first row runs over more than 2^32 bytes: it leaves the buffer and the process faults.
freerdp_image_copy_from_pointer_data(m, p, palette) ==
    IF p.nXDst > p.nWidth /\ p.nYDst < p.nHeight
    THEN { Outcome(m, Aborted,
                   PointerPath("memset", p, ResolveStep(p.nDstStep, p.nWidth, p.DstFormat),
                               0, 0)) }
    ELSE { PointerOutcome(
              PointerDispatch(
                  PointerZeroFill(m, p, ResolveStep(p.nDstStep, p.nWidth, p.DstFormat), p.nYDst),
                  p, palette, ResolveStep(p.nDstStep, p.nWidth, p.DstFormat)),
              p, ResolveStep(p.nDstStep, p.nWidth, p.DstFormat)) }

(***************************************************************************)
(* Scaling, in a build without WITH_SWSCALE and without WITH_CAIRO.        *)
(***************************************************************************)
\* the region copy the scaler hands equal dimensions to: no palette, FREERDP_FLIP_NONE
ScaleCopyArgs(s) ==
    CopyArgs(s.pDstData, s.DstFormat, ResolveStep(s.nDstStep, s.nDstWidth.lo, s.DstFormat),
             s.nXDst, s.nYDst, s.nDstWidth, s.nDstHeight, s.pSrcData, s.SrcFormat,
             ResolveStep(s.nSrcStep, s.nSrcWidth.lo, s.SrcFormat), s.nXSrc, s.nYSrc, {})

\* "SmartScaling requested but compiled without libcairo support!": return rc, FALSE
ScaleUnsupported(m, s) ==
    Outcome(m, Status(FALSE),
            Path("none", "unscaled", TRUE,
                 ResolveStep(s.nDstStep, s.nDstWidth.lo, s.DstFormat),
                 ResolveStep(s.nSrcStep, s.nSrcWidth.lo, s.SrcFormat)))

freerdp_image_scale(m, s, build) ==
    IF s.nDstWidth = s.nSrcWidth /\ s.nDstHeight = s.nSrcHeight
    THEN freerdp_image_copy_no_overlap(m, ScaleCopyArgs(s), NoPalette, build)
    ELSE ScaleUnsupported(m, s)

(***************************************************************************)
(* Threads in freerdp_image_copy_no_overlap.  The test of the static       *)
(* handle, the call of primitives_get, the assignment and the call of the  *)
(* backend are steps of their own; nothing orders the steps of one thread  *)
(* with those of another.                                                  *)
(***************************************************************************)
MaxThreads == 3

Threads == 1 .. MaxThreads

\* a thread at a step, with the handle it got from primitives_get, with what it did to the
\* static handle, and with the result of its call
Thread(pc, handle, got, wrote, overwrote, result) ==
    [got |-> got, handle |-> handle, overwrote |-> overwrote, pc |-> pc, result |-> result,
     wrote |-> wrote]

NotCalling == Thread("caller", NULL, FALSE, FALSE, FALSE, NoRet)

\* a handle whose copy_no_overlap is NULL
PrimitivesWithoutCopy == 2

\* what primitives_get() may return: the handle with its copy function, a handle without
\* one, or no handle
PrimitivesHandles == {primitives_get, PrimitivesWithoutCopy, NULL}

\* freerdp_image_copy_no_overlap with the static handle as it is after the first lines.
\* Without a handle, or without its copy function, WINPR_ASSERT(prims) or
\* WINPR_ASSERT(prims->copy_no_overlap) aborts; where the assertions are compiled out the
\* call reads through the null handle or calls the null function, and the process faults.
freerdp_image_copy_no_overlap_with(m, a, palette, build, handle) ==
    IF handle = primitives_get THEN freerdp_image_copy_no_overlap(m, a, palette, build)
    ELSE Outcome(m, Aborted,
                 Path("no_overlap", IF handle = NULL THEN "prims" ELSE "prims->copy_no_overlap",
                      FALSE, 0, 0))

(***************************************************************************)
(* The state before any call.                                              *)
(***************************************************************************)
Init ==
    /\ call = [op |-> "none"]
    /\ old = InitialArena
    /\ mem = InitialArena
    /\ ret = NoRet
    /\ path = NoPath
    /\ prims = NULL
    /\ threads = [t \in Threads |-> NotCalling]

(***************************************************************************)
(* Calls of the colour codec.  Channels are independent of one another in  *)
(* every format, so each byte ranges over samples that hit the cases of a  *)
(* channel: zero, low bits only, the 5- and 6-bit maxima, the top bit.     *)
(***************************************************************************)
ByteSamples == {0, 5, 8, 127, 252, 255}

PackedSamples ==
    { U32(b3, b2, b1, b0) : b3 \in {0, 128, 255}, b2 \in {0, 127, 255}, b1 \in ByteSamples, b0 \in ByteSamples }

\* the caller's palette for RGB8 colours
CallerPalette ==
    [format |-> "XRGB32",
     palette |-> [i \in 0..255 |-> FreeRDPGetColor("XRGB32", i, 255 - i, (i * 7) % 256, 255)]]

\* the caller is between two calls
Idle == call.op = "none"

\* the caller takes the result; the static handle stays
Return ==
    /\ ~Idle
    /\ call' = [op |-> "none"]
    /\ old' = InitialArena
    /\ mem' = InitialArena
    /\ ret' = NoRet
    /\ path' = NoPath
    /\ UNCHANGED prims
    /\ UNCHANGED threads

GetColorCall ==
    /\ Idle
    /\ \E format \in PixelFormats, r \in ByteSamples, g \in ByteSamples, b \in ByteSamples, a \in ByteSamples :
        /\ call' = [a |-> a, b |-> b, format |-> format, g |-> g, op |-> "FreeRDPGetColor", r |-> r]
        /\ ret' = Packed(FreeRDPGetColor(format, r, g, b, a))
    /\ UNCHANGED <<old, mem, path, prims>>
    /\ UNCHANGED threads

SplitColorCall ==
    /\ Idle
    /\ \E format \in PixelFormats, color \in PackedSamples :
        /\ call' = [color |-> color, format |-> format, op |-> "FreeRDPSplitColor"]
        /\ ret' = FreeRDPSplitColor(color, format, CallerPalette)
    /\ UNCHANGED <<old, mem, path, prims>>
    /\ UNCHANGED threads

\* conversions within one format, and the normalisation to ARGB32 the pointer decoder uses
ConvertColorCall ==
    /\ Idle
    /\ \E srcFormat \in PixelFormats, color \in PackedSamples :
        \E dstFormat \in {srcFormat, "ARGB32"} :
            /\ call' = [color |-> color, dstFormat |-> dstFormat, op |-> "FreeRDPConvertColor",
                        srcFormat |-> srcFormat]
            /\ ret' = Packed(FreeRDPConvertColor(color, srcFormat, dstFormat, CallerPalette))
    /\ UNCHANGED <<old, mem, path, prims>>
    /\ UNCHANGED threads

NextColor == GetColorCall \/ SplitColorCall \/ ConvertColorCall \/ Return

SpecColor == Init /\ [][NextColor]_vars

(***************************************************************************)
(* Calls of the region copy engine.  Both views of a call lie in the one   *)
(* arena; a caller keeps the rectangle of a view inside the rows of the    *)
(* view and inside its buffer whenever the call gets as far as touching    *)
(* memory.                                                                 *)
(***************************************************************************)
MaxWidth == 2

MaxHeight == 2

MaxOrigin == 1

Builds == [asserts : BOOLEAN, libc : Libc, vector : BOOLEAN]

\* the rectangle lies within the rows of its view, and the view within the arena
ViewInArena(p, nStep, nX, nY, nWidth, nHeight, bytesPerPixel) ==
    /\ p >= 0
    /\ (nX + nWidth) * bytesPerPixel <= nStep
    /\ p + (nY + nHeight - 1) * nStep + (nX + nWidth) * bytesPerPixel <= ArenaSize

\* the call gets past the checks of the dimensions and of the pointers
TouchesMemory(a) ==
    /\ ~ExceedsINT32_MAX(a.nWidth) /\ ~ExceedsINT32_MAX(a.nHeight)
    /\ ~IsZero(a.nWidth) /\ ~IsZero(a.nHeight)
    /\ a.pDstData # NULL /\ a.pSrcData # NULL

\* with the vertical flip the source lines are addressed downwards from line nHeight - 1
FlippedLinesInArena(a) ==
    "FREERDP_FLIP_VERTICAL" \in a.flags =>
        a.pSrcData - a.nYSrc * ResolveStep(a.nSrcStep, a.nWidth.lo, a.SrcFormat) >= 0

\* the arena reaches as far behind the source view as the loop that keeps the destination
\* alpha goes, which addresses every line with four bytes for a pixel
AlphaLoopInArena(a) ==
    KeepDstAlpha(a) =>
        a.pSrcData
            + (a.nYSrc + a.nHeight.lo - 1) * ResolveStep(a.nSrcStep, a.nWidth.lo, a.SrcFormat)
            + (a.nXSrc + a.nWidth.lo) * 4 <= ArenaSize

CallerKeepsBounds(a) ==
    TouchesMemory(a) =>
        /\ a.nWidth.lo <= MaxWidth + 1 /\ a.nHeight.lo <= MaxHeight + 1
        /\ ViewInArena(a.pDstData, ResolveStep(a.nDstStep, a.nWidth.lo, a.DstFormat),
                       a.nXDst, a.nYDst, a.nWidth.lo, a.nHeight.lo,
                       FreeRDPGetBytesPerPixel(a.DstFormat))
        /\ ViewInArena(a.pSrcData, ResolveStep(a.nSrcStep, a.nWidth.lo, a.SrcFormat),
                       a.nXSrc, a.nYSrc, a.nWidth.lo, a.nHeight.lo,
                       FreeRDPGetBytesPerPixel(a.SrcFormat))
        /\ FlippedLinesInArena(a)
        /\ AlphaLoopInArena(a)

Origins == 0 .. MaxOrigin

Widths == { UINT32(0, n) : n \in 1 .. MaxWidth }

Heights == { UINT32(0, n) : n \in 1 .. MaxHeight }

\* two views of one surface: the same format and stride, origins and base offsets apart by
\* up to a pixel and a row
ShiftedViews ==
    { CopyArgs(pDst, f, nStep, nXDst, nYDst, w, h, pSrc, f, nStep, nXSrc, nYSrc, {}) :
        pDst \in {0, 4, 12}, pSrc \in {0, 4, 12}, f \in {"BGRX32", "RGB16"},
        nStep \in {0, 8, 12}, nXDst \in Origins, nYDst \in Origins, nXSrc \in Origins,
        nYSrc \in Origins, w \in Widths, h \in Heights }

\* views whose strides and formats differ
MixedViews ==
    { CopyArgs(0, f[2], nDstStep, nXDst, 0, w, h, pSrc, f[1], nSrcStep, 0, nYSrc, flags) :
        f \in {<<"BGRX32", "BGRX32">>, <<"BGRA32", "BGRX32">>, <<"BGR24", "BGRA32">>,
               <<"RGB16", "BGRA32">>, <<"BGRX32", "RGB16">>},
        nDstStep \in {0, 8, 16}, nSrcStep \in {0, 4, 8}, pSrc \in {4, 24}, nXDst \in Origins,
        nYSrc \in Origins, w \in Widths, h \in Heights,
        flags \in {{}, {"FREERDP_FLIP_VERTICAL"}, {"FREERDP_KEEP_DST_ALPHA"}} }

\* flips of a rectangle in place: one buffer, one origin and one stride for both views
FlippedViews ==
    { CopyArgs(p, f[2], nStep, nX, nY, w, h, p, f[1], nStep, nX, nY, {"FREERDP_FLIP_VERTICAL"}) :
        p \in {0, 8}, f \in {<<"BGRX32", "BGRX32">>, <<"BGRX32", "RGBX32">>},
        nStep \in {0, 8}, nX \in Origins, nY \in Origins, w \in Widths, h \in Heights }

\* dimensions at and beyond the limits, pointers that may be null
LimitDimensions ==
    { UINT32(0, 0), UINT32(0, 1), UINT32(0, INT32_MAX), UINT32(1, 0), UINT32(1, INT32_MAX) }

LimitCalls ==
    { CopyArgs(pDst, "BGRX32", nStep, 0, nY, w, h, pSrc, "BGRX32", nStep, 0, 0, {}) :
        pDst \in {NULL, 0}, pSrc \in {NULL, 0, 8}, nStep \in {0, 8}, nY \in Origins,
        w \in LimitDimensions, h \in LimitDimensions }

LimitCopyCalls == { a \in LimitCalls : CallerKeepsBounds(a) }

CopyCalls ==
    { a \in ShiftedViews \cup MixedViews \cup FlippedViews : CallerKeepsBounds(a) }
        \cup LimitCopyCalls

ImageCopyCall(calls) ==
    /\ Idle
    /\ \E a \in calls, build \in Builds :
        \E out \in {freerdp_image_copy(mem, a, CallerPalette, build)} :
            /\ call' = [args |-> a, op |-> "freerdp_image_copy"]
            /\ mem' = out.mem
            /\ ret' = out.ret
            /\ path' = out.path
            /\ prims' = IF out.path.copy = "no_overlap" /\ prims = NULL
                        THEN primitives_get ELSE prims
    /\ UNCHANGED old
    /\ UNCHANGED threads

ImageCopyOverlapCall(calls) ==
    /\ Idle
    /\ \E a \in calls, build \in Builds :
        \E out \in {freerdp_image_copy_overlap(mem, a, CallerPalette, build)} :
            /\ call' = [args |-> a, op |-> "freerdp_image_copy_overlap"]
            /\ mem' = out.mem
            /\ ret' = out.ret
            /\ path' = out.path
    /\ UNCHANGED <<old, prims>>
    /\ UNCHANGED threads

ImageCopyNoOverlapCall(calls) ==
    /\ Idle
    /\ \E a \in calls, build \in Builds :
        \E out \in {freerdp_image_copy_no_overlap(mem, a, CallerPalette, build)} :
            /\ call' = [args |-> a, op |-> "freerdp_image_copy_no_overlap"]
            /\ mem' = out.mem
            /\ ret' = out.ret
            /\ path' = out.path
            /\ prims' = IF prims = NULL THEN primitives_get ELSE prims
    /\ UNCHANGED old
    /\ UNCHANGED threads

NextCopy ==
    \/ ImageCopyCall(CopyCalls)
    \/ ImageCopyOverlapCall(CopyCalls)
    \/ ImageCopyNoOverlapCall(CopyCalls)
    \/ Return

SpecCopy == Init /\ [][NextCopy]_vars

\* the calls at the limits of the arguments only
NextLimits ==
    \/ ImageCopyCall(LimitCopyCalls)
    \/ ImageCopyOverlapCall(LimitCopyCalls)
    \/ Return

SpecLimits == Init /\ [][NextLimits]_vars

\* the calls that go through the dispatcher only
NextDispatch == ImageCopyCall(CopyCalls) \/ Return

SpecDispatch == Init /\ [][NextDispatch]_vars

(***************************************************************************)
(* Calls of fill, glyph expansion and the monochrome stencil.              *)
(***************************************************************************)
FillArgs(pDstData, DstFormat, nDstStep, nXDst, nYDst, nWidth, nHeight, color) ==
    [pDstData |-> pDstData, DstFormat |-> DstFormat, nDstStep |-> nDstStep, nXDst |-> nXDst,
     nYDst |-> nYDst, nWidth |-> nWidth, nHeight |-> nHeight, color |-> color]

\* two colours of a format, as FreeRDPGetColor packs them (an index for the 8-bit format)
ColorsOf(format) ==
    IF FreeRDPGetBitsPerPixel(format) = 8
    THEN <<U32(0, 0, 0, 7), U32(0, 0, 0, 200)>>
    ELSE <<FreeRDPGetColor(format, 255, 127, 8, 255), FreeRDPGetColor(format, 5, 8, 252, 255)>>

FillCalls ==
    { f \in UNION { { FillArgs(pDst, format, nStep, nX, nY, w, h, ColorsOf(format)[i]) :
                        pDst \in {0, 4}, nStep \in {0, 12, 16}, nX \in Origins, nY \in Origins,
                        w \in 0 .. MaxWidth, h \in 0 .. MaxHeight, i \in 1 .. 2 } :
                    format \in {"BGRX32", "BGR24", "RGB16", "RGB15"} } :
        (f.nWidth # 0 /\ f.nHeight # 0) =>
            ViewInArena(f.pDstData, FillStep(f.nDstStep, f.nXDst, f.nWidth, f.DstFormat),
                        f.nXDst, f.nYDst, f.nWidth, f.nHeight,
                        FreeRDPGetBytesPerPixel(f.DstFormat)) }

FillCall(calls) ==
    /\ Idle
    /\ \E f \in calls, libc \in Libc :
        \E out \in {freerdp_image_fill(mem, f, libc)} :
            /\ call' = [args |-> f, op |-> "freerdp_image_fill"]
            /\ mem' = out.mem
            /\ ret' = out.ret
            /\ path' = out.path
    /\ UNCHANGED <<old, prims>>
    /\ UNCHANGED threads

NextFill == FillCall(FillCalls) \/ Return

SpecFill == Init /\ [][NextFill]_vars

MaxGlyphWidth == 10

MaxGlyphHeight == 2

\* bytes of a glyph: no bit, all bits, the first or the last bit only, 0b10110000
GlyphBytes == {0, 1, 128, 176, 255}

\* the bitmaps of a width and a height: rows of GlyphScanline(width) bytes
GlyphData(width, height) == [1 .. GlyphScanline(width) * height -> GlyphBytes]

GlyphConvertCall ==
    /\ Idle
    /\ \E width \in 0 .. MaxGlyphWidth, height \in 0 .. MaxGlyphHeight, allocated \in BOOLEAN :
        \E data \in GlyphData(width, height) :
            /\ call' = [args |-> [data |-> data, height |-> height, width |-> width],
                        op |-> "freerdp_glyph_convert"]
            /\ ret' = freerdp_glyph_convert(width, height, data, allocated)
    /\ UNCHANGED <<old, mem, path, prims>>
    /\ UNCHANGED threads

NextGlyph == GlyphConvertCall \/ Return

SpecGlyph == Init /\ [][NextGlyph]_vars

MaxMonoWidth == 9

\* where the caller keeps the mask of a monochrome copy: the last eight bytes of the arena
MaskBase == ArenaSize - 8

Masks ==
    { <<176, 1, 90, 255, 0, 129, 15, 240>>, <<79, 254, 165, 0, 255, 126, 240, 15>>,
      <<255, 255, 255, 255, 255, 255, 255, 255>>, <<0, 0, 0, 0, 0, 0, 0, 0>> }

\* the arena with the mask in it
WithMask(m, mask) ==
    [i \in DOMAIN m |-> IF i >= MaskBase /\ i < MaskBase + Len(mask) THEN mask[i - MaskBase + 1]
                        ELSE m[i]]

MonoArgs(pDstData, DstFormat, nDstStep, nXDst, nYDst, nWidth, nHeight, pSrcData, backColor, foreColor, palette) ==
    [pDstData |-> pDstData, DstFormat |-> DstFormat, nDstStep |-> nDstStep, nXDst |-> nXDst,
     nYDst |-> nYDst, nWidth |-> nWidth, nHeight |-> nHeight, pSrcData |-> pSrcData,
     backColor |-> backColor, foreColor |-> foreColor, palette |-> palette]

\* the destination lies below the mask, which has a row of MonoStep bytes for each line
MonoKeepsBounds(c) ==
    (c.pDstData # NULL) =>
        /\ MonoStep(c.nWidth) * c.nHeight <= 8
        /\ (c.nXDst + c.nWidth) * FreeRDPGetBytesPerPixel(c.DstFormat)
              <= (IF c.nDstStep = 0
                  THEN FreeRDPGetBytesPerPixel(c.DstFormat) * c.nWidth ELSE c.nDstStep)
        /\ c.pDstData
              + (c.nYDst + c.nHeight - 1)
                    * (IF c.nDstStep = 0
                       THEN FreeRDPGetBytesPerPixel(c.DstFormat) * c.nWidth ELSE c.nDstStep)
              + (c.nXDst + c.nWidth) * FreeRDPGetBytesPerPixel(c.DstFormat) <= MaskBase

MonoCalls ==
    { c \in UNION { { MonoArgs(pDst, format, nStep, nX, nY, w, h, pSrc,
                               ColorsOf(format)[1], ColorsOf(format)[2], palette) :
                        pDst \in {NULL, 0}, nStep \in {0, 12}, nX \in Origins, nY \in Origins,
                        w \in 1 .. MaxMonoWidth, h \in 1 .. MaxHeight,
                        pSrc \in {NULL, MaskBase}, palette \in BOOLEAN } :
                    format \in {"BGRX32", "RGB16", "RGB8"} } :
        /\ MonoKeepsBounds(c)
        /\ (c.pDstData = NULL => c.nWidth = 1 /\ c.nXDst = 0) }

MonochromeCall(calls) ==
    /\ Idle
    /\ \E c \in calls, mask \in Masks :
        \E out \in {freerdp_image_copy_from_monochrome(WithMask(mem, mask), c)} :
            /\ call' = [args |-> c, op |-> "freerdp_image_copy_from_monochrome"]
            /\ old' = WithMask(mem, mask)
            /\ mem' = out.mem
            /\ ret' = out.ret
            /\ path' = out.path
    /\ UNCHANGED prims
    /\ UNCHANGED threads

NextMono == MonochromeCall(MonoCalls) \/ Return

SpecMono == Init /\ [][NextMono]_vars

\* the calls that leave the stride to the operation
ZeroStrideCopies == { a \in CopyCalls : a.nDstStep = 0 /\ a.nSrcStep = 0 /\ a.flags = {} }

ZeroStrideFills == { f \in FillCalls : f.nDstStep = 0 }

ZeroStrideMonos == { c \in MonoCalls : c.nDstStep = 0 }

NextStrides ==
    \/ ImageCopyCall(ZeroStrideCopies)
    \/ ImageCopyOverlapCall(ZeroStrideCopies)
    \/ FillCall(ZeroStrideFills)
    \/ MonochromeCall(ZeroStrideMonos)
    \/ Return

SpecStrides == Init /\ [][NextStrides]_vars

(***************************************************************************)
(* Calls of the icon decoder.  The destination lies in front of the colour *)
(* table, the colour payload and the mask, which take the last 24 bytes of *)
(* the arena, eight bytes each.                                            *)
(***************************************************************************)
IconColorBase == ArenaSize - 16

IconTableBase == ArenaSize - 24

IconArgs(pDstData, DstFormat, nDstStep, nXDst, nYDst, nWidth, nHeight, bitsColor, cbBitsColor, bitsMask, cbBitsMask, colorTable, cbColorTable, bpp) ==
    [pDstData |-> pDstData, DstFormat |-> DstFormat, nDstStep |-> nDstStep, nXDst |-> nXDst,
     nYDst |-> nYDst, nWidth |-> nWidth, nHeight |-> nHeight, bitsColor |-> bitsColor,
     cbBitsColor |-> cbBitsColor, bitsMask |-> bitsMask, cbBitsMask |-> cbBitsMask,
     colorTable |-> colorTable, cbColorTable |-> cbColorTable, bpp |-> bpp]

\* the destination rectangle and the pixels of the alpha pass lie in front of the colour
\* table, the geometry fits the eight bytes of the payload and of the mask
IconKeepsBounds(c) ==
    /\ (c.nXDst + c.nWidth) * FreeRDPGetBytesPerPixel(c.DstFormat)
            <= ResolveStep(c.nDstStep, c.nWidth, c.DstFormat)
    /\ (c.nYDst + c.nHeight - 1) * ResolveStep(c.nDstStep, c.nWidth, c.DstFormat)
            + (c.nXDst + c.nWidth) * FreeRDPGetBytesPerPixel(c.DstFormat) <= IconTableBase
    /\ c.nWidth * c.nHeight * FreeRDPGetBytesPerPixel(c.DstFormat) <= IconTableBase
    /\ IconFormat(c.bpp) # "NONE" =>
            c.nWidth * c.nHeight * FreeRDPGetBytesPerPixel(IconFormat(c.bpp)) <= 8
    /\ IconMaskStride(c.nWidth) * c.nHeight <= 8

\* icons of a few pixels, with and without a mask, a colour table and enough payload
SmallIcons(widths, heights) ==
    { c \in { IconArgs(0, f, nStep, nX, nY, w, h, bitsColor, cbBitsColor, MaskBase, cbBitsMask,
                       IconTableBase, cbColorTable, bpp) :
                f \in {"BGRA32", "BGRX32", "ARGB15"}, nStep \in {0, 8}, nX \in Origins,
                nY \in Origins, w \in widths, h \in heights,
                bitsColor \in {NULL, IconColorBase}, cbBitsColor \in {0, 4, 8},
                cbBitsMask \in {0, 1, 8}, cbColorTable \in {0, 8}, bpp \in {1, 8, 16, 32} } :
        /\ IconKeepsBounds(c)
        /\ c.bpp # 8 => c.cbColorTable = 0
        /\ (c.bitsColor = NULL \/ c.bpp = 1) => (c.nXDst = 0 /\ c.cbBitsMask = 0) }

\* icons of the largest geometries, whose payload cannot hold them
LargeIcons ==
    { IconArgs(0, "BGRA32", 0, 0, 0, w, h, IconColorBase, cbBitsColor, MaskBase, 0,
               IconTableBase, 0, bpp) :
        w \in {16384, 32768, 65535}, h \in {32768, 65535}, cbBitsColor \in {0, 8},
        bpp \in {8, 16, 32} }

IconCall(calls) ==
    /\ Idle
    /\ \E c \in calls, build \in Builds, mask \in Masks :
        \E out \in freerdp_image_copy_from_icon_data(WithMask(mem, mask), c, build) :
            /\ call' = [args |-> c, op |-> "freerdp_image_copy_from_icon_data"]
            /\ old' = WithMask(mem, mask)
            /\ mem' = out.mem
            /\ ret' = out.ret
            /\ path' = out.path
            /\ prims' = IF out.path.branch \in {"copy", "color", "alpha"} /\ prims = NULL
                        THEN primitives_get ELSE prims
    /\ UNCHANGED threads

NextIcon == IconCall(SmallIcons(1 .. MaxWidth, 1 .. MaxHeight) \cup LargeIcons) \/ Return

SpecIcon == Init /\ [][NextIcon]_vars

(***************************************************************************)
(* Calls of the pointer decoder.  The destination lies in front of the XOR *)
(* mask and the AND mask, which take the last 16 bytes of the arena, eight *)
(* bytes each.                                                             *)
(***************************************************************************)
XorBase == ArenaSize - 16

\* XOR masks: white and opaque black in every depth, and colours that are neither
XorMasks ==
    { <<255, 255, 255, 255, 0, 0, 0, 255>>, <<0, 0, 0, 255, 255, 255, 255, 255>>,
      <<128, 0, 64, 0, 0, 0, 255, 255>>, <<255, 127, 0, 0, 18, 52, 86, 120>> }

\* the arena with the XOR mask in it
WithXor(m, xor) ==
    [i \in DOMAIN m |-> IF i >= XorBase /\ i < XorBase + Len(xor) THEN xor[i - XorBase + 1]
                        ELSE m[i]]

PointerArgs(pDstData, DstFormat, nDstStep, nXDst, nYDst, nWidth, nHeight, xorMask, xorMaskLength, andMask, andMaskLength, xorBpp, palette) ==
    [pDstData |-> pDstData, DstFormat |-> DstFormat, nDstStep |-> nDstStep, nXDst |-> nXDst,
     nYDst |-> nYDst, nWidth |-> nWidth, nHeight |-> nHeight, xorMask |-> xorMask,
     xorMaskLength |-> xorMaskLength, andMask |-> andMask, andMaskLength |-> andMaskLength,
     xorBpp |-> xorBpp, palette |-> palette]

\* the rows of the destination lie in front of the XOR mask and hold the rectangle, and
\* the geometry fits the eight bytes of either mask
PointerKeepsBounds(p) ==
    /\ (p.nXDst + p.nWidth) * FreeRDPGetBytesPerPixel(p.DstFormat)
            <= ResolveStep(p.nDstStep, p.nWidth, p.DstFormat)
    /\ (p.nYDst + p.nHeight) * ResolveStep(p.nDstStep, p.nWidth, p.DstFormat) <= XorBase
    /\ PointerMaskStep(p.nWidth) * p.nHeight <= 8
    /\ p.xorBpp \in {8, 16, 24, 32} => PointerXorStep(p.nWidth, p.xorBpp) * p.nHeight <= 8

\* pointers of a few pixels in every depth, with and without masks, a palette and enough
\* bytes; nXDst runs past nWidth
PointerCalls(widths, heights) ==
    { p \in { PointerArgs(0, f, nStep, nX, nY, w, h, xorMask, xorMaskLength, andMask,
                          andMaskLength, xorBpp, palette) :
                f \in {"ARGB32", "BGRX32", "RGB16"}, nStep \in {0, 8},
                nX \in 0 .. (MaxOrigin + 1), nY \in Origins, w \in widths,
                h \in heights, xorMask \in {NULL, XorBase}, xorMaskLength \in {0, 2, 8},
                andMask \in {NULL, MaskBase}, andMaskLength \in {0, 2, 8},
                xorBpp \in {1, 4, 8, 16, 24, 32}, palette \in BOOLEAN } :
        /\ PointerKeepsBounds(p)
        /\ p.xorBpp # 8 => p.palette
        /\ (p.xorMask = NULL \/ p.xorBpp = 4) =>
                (p.nDstStep = 8 /\ p.xorMaskLength = 8 /\ p.andMaskLength = 8)
        /\ p.andMask = NULL => p.andMaskLength = 0
        /\ (p.nWidth = 0 \/ p.nHeight = 0 \/ p.nDstStep = 0 \/ p.nYDst # 0) =>
                (p.xorMaskLength = 8 /\ p.andMaskLength \in {0, 8})
        /\ p.DstFormat = "RGB16" => p.nDstStep = 8
        /\ (p.nWidth = 0 \/ p.nHeight = 0 \/ p.nYDst # 0) => p.DstFormat = "ARGB32" }

\* AND masks whose bits differ from pixel to pixel and from row to row
AndMasks == { <<176, 1, 165, 255, 0, 129, 15, 240>>, <<79, 254, 101, 0, 255, 126, 240, 15>> }

PointerCall(calls) ==
    /\ Idle
    /\ \E p \in calls, xor \in XorMasks, mask \in AndMasks :
        \E out \in freerdp_image_copy_from_pointer_data(WithXor(WithMask(mem, mask), xor), p,
                                                         PointerPalette) :
            /\ call' = [args |-> p, op |-> "freerdp_image_copy_from_pointer_data"]
            /\ old' = WithXor(WithMask(mem, mask), xor)
            /\ mem' = out.mem
            /\ ret' = out.ret
            /\ path' = out.path
            /\ UNCHANGED prims
    /\ UNCHANGED threads

NextPointer == PointerCall(PointerCalls(0 .. MaxWidth, 0 .. MaxHeight)) \/ Return

SpecPointer == Init /\ [][NextPointer]_vars

(***************************************************************************)
(* Calls of the scaler: the views of the region copy, and source           *)
(* dimensions equal to those of the destination or a pixel larger.         *)
(***************************************************************************)
ScaleArgs(a, nSrcWidth, nSrcHeight) ==
    [pDstData |-> a.pDstData, DstFormat |-> a.DstFormat, nDstStep |-> a.nDstStep,
     nXDst |-> a.nXDst, nYDst |-> a.nYDst, nDstWidth |-> a.nWidth, nDstHeight |-> a.nHeight,
     pSrcData |-> a.pSrcData, SrcFormat |-> a.SrcFormat, nSrcStep |-> a.nSrcStep,
     nXSrc |-> a.nXSrc, nYSrc |-> a.nYSrc, nSrcWidth |-> nSrcWidth, nSrcHeight |-> nSrcHeight]

ScaleCalls(views) ==
    { ScaleArgs(a, UINT32(0, a.nWidth.lo + dw), UINT32(0, a.nHeight.lo + dh)) :
        a \in { c \in views :
                    /\ CallerKeepsBounds(c)
                    /\ c.flags = {}
                    /\ c.nDstStep \in {0, 8} /\ c.nSrcStep \in {0, 8} },
        dw \in {0, 1}, dh \in {0, 1} }

ScaleCall(calls) ==
    /\ Idle
    /\ \E s \in calls, build \in Builds :
        \E out \in {freerdp_image_scale(mem, s, build)} :
            /\ call' = [args |-> s, build |-> build, op |-> "freerdp_image_scale"]
            /\ mem' = out.mem
            /\ ret' = out.ret
            /\ path' = out.path
            /\ prims' = IF out.path.copy = "no_overlap" /\ prims = NULL
                        THEN primitives_get ELSE prims
    /\ UNCHANGED old
    /\ UNCHANGED threads

NextScale == ScaleCall(ScaleCalls(ShiftedViews \cup MixedViews)) \/ Return

SpecScale == Init /\ [][NextScale]_vars

(***************************************************************************)
(* Calls of freerdp_image_copy_no_overlap by several threads, each copying *)
(* one pixel of a source they share to a pixel of its own.                 *)
(***************************************************************************)
ThreadSource == ArenaSize - 16

ThreadCopyArgs(t) ==
    CopyArgs(4 * (t - 1), "BGRX32", 4, 0, 0, UINT32(0, 1), UINT32(0, 1), ThreadSource, "BGRX32",
             4, 0, 0, {})

\* a thread enters the function
ThreadEnters(t) ==
    /\ threads[t].pc = "caller"
    /\ threads' = [threads EXCEPT ![t].pc = "if (!prims)"]
    /\ UNCHANGED <<call, old, mem, ret, path, prims>>

\* if (!prims)
ThreadTestsHandle(t) ==
    /\ threads[t].pc = "if (!prims)"
    /\ threads' = [threads EXCEPT ![t].pc = IF prims = NULL THEN "primitives_get()"
                                            ELSE "copy_no_overlap"]
    /\ UNCHANGED <<call, old, mem, ret, path, prims>>

\* primitives_get()
ThreadGetsPrimitives(t) ==
    /\ threads[t].pc = "primitives_get()"
    /\ threads' = [threads EXCEPT ![t].pc = "prims =", ![t].handle = primitives_get,
                                  ![t].got = TRUE]
    /\ UNCHANGED <<call, old, mem, ret, path, prims>>

\* prims = the handle got
ThreadAssignsHandle(t) ==
    /\ threads[t].pc = "prims ="
    /\ prims' = threads[t].handle
    /\ threads' = [threads EXCEPT ![t].pc = "copy_no_overlap", ![t].wrote = TRUE,
                                  ![t].overwrote = (prims # NULL)]
    /\ UNCHANGED <<call, old, mem, ret, path>>

\* the assertions and the call of the backend
ThreadCopies(t) ==
    /\ threads[t].pc = "copy_no_overlap"
    /\ \E build \in Builds :
        \E out \in {freerdp_image_copy_no_overlap(mem, ThreadCopyArgs(t), NoPalette, build)} :
            /\ mem' = out.mem
            /\ threads' = [threads EXCEPT ![t].pc = "returned", ![t].result = out.ret]
    /\ UNCHANGED <<call, old, ret, path, prims>>

NextThreads ==
    \E t \in Threads :
        \/ ThreadEnters(t)
        \/ ThreadTestsHandle(t)
        \/ ThreadGetsPrimitives(t)
        \/ ThreadAssignsHandle(t)
        \/ ThreadCopies(t)

SpecThreads == Init /\ [][NextThreads]_vars

(***************************************************************************)
(* Calls of freerdp_image_copy_no_overlap in processes whose               *)
(* primitives_get() yields a handle, a handle without copy function, or    *)
(* nothing.  The two views are apart.                                      *)
(***************************************************************************)
BackendCalls(views) ==
    { a \in views :
        /\ CallerKeepsBounds(a)
        /\ a.pSrcData = 24
        /\ ~Overlapping(a, ResolveStep(a.nDstStep, a.nWidth.lo, a.DstFormat),
                        ResolveStep(a.nSrcStep, a.nWidth.lo, a.SrcFormat)) }

BackendCall(calls) ==
    /\ Idle
    /\ \E a \in calls, build \in Builds, handle \in PrimitivesHandles :
        \E out \in { freerdp_image_copy_no_overlap_with(
                        mem, [a EXCEPT !.nDstStep = ResolveStep(a.nDstStep, a.nWidth.lo, a.DstFormat),
                                       !.nSrcStep = ResolveStep(a.nSrcStep, a.nWidth.lo, a.SrcFormat)],
                        CallerPalette, build, IF prims = NULL THEN handle ELSE prims) } :
            /\ call' = [args |-> a, build |-> build, op |-> "freerdp_image_copy_no_overlap"]
            /\ mem' = out.mem
            /\ ret' = out.ret
            /\ path' = out.path
            /\ prims' = IF prims = NULL THEN handle ELSE prims
    /\ UNCHANGED <<old, threads>>

NextBackend == BackendCall(BackendCalls(MixedViews)) \/ Return

SpecBackend == Init /\ [][NextBackend]_vars

(***************************************************************************)
(* Properties of the region copy engine.                                   *)
(***************************************************************************)
\* the address of byte k of pixel (x, y) of a rectangle in a view
ByteAt(p, nStep, nX, nY, bytesPerPixel, x, y, k) ==
    p + (nY + y) * nStep + (nX + x) * bytesPerPixel + k

\* the bytes of the destination and of the source rectangle of a copy that touched memory
DstBytes(a, nDstStep) ==
    { ByteAt(a.pDstData, nDstStep, a.nXDst, a.nYDst, FreeRDPGetBytesPerPixel(a.DstFormat),
             x, y, k) :
        x \in 0 .. (a.nWidth.lo - 1), y \in 0 .. (a.nHeight.lo - 1),
        k \in 0 .. (FreeRDPGetBytesPerPixel(a.DstFormat) - 1) }

SrcBytes(a, nSrcStep) ==
    { ByteAt(a.pSrcData, nSrcStep, a.nXSrc, a.nYSrc, FreeRDPGetBytesPerPixel(a.SrcFormat),
             x, y, k) :
        x \in 0 .. (a.nWidth.lo - 1), y \in 0 .. (a.nHeight.lo - 1),
        k \in 0 .. (FreeRDPGetBytesPerPixel(a.SrcFormat) - 1) }

\* a copy between two views of one format, without flags, returned success after going
\* through a copy path
SameFormatCopyDone ==
    /\ call.op \in {"freerdp_image_copy", "freerdp_image_copy_overlap"}
    /\ call.args.SrcFormat = call.args.DstFormat
    /\ call.args.flags = {}
    /\ path.dstStep # 0
    /\ ret = Status(TRUE)

\* C1: a same-format copy between overlapping rectangles of one buffer leaves the
\* destination rectangle as copying the original source rectangle through a scratch buffer
\* would: every byte of every destination pixel is the byte the source pixel had before
\* the call, whatever the origins and the base offsets of the two views are.
C1_OverlapCopyIsScratchCopy ==
    (/\ SameFormatCopyDone
     /\ DstBytes(call.args, path.dstStep) \cap SrcBytes(call.args, path.srcStep) # {}) =>
        LET a == call.args
            bytesPerPixel == FreeRDPGetBytesPerPixel(a.DstFormat)
        IN  \A x \in 0 .. (a.nWidth.lo - 1), y \in 0 .. (a.nHeight.lo - 1),
               k \in 0 .. (bytesPerPixel - 1) :
                mem[ByteAt(a.pDstData, path.dstStep, a.nXDst, a.nYDst, bytesPerPixel, x, y, k)]
                    = old[ByteAt(a.pSrcData, path.srcStep, a.nXSrc, a.nYSrc, bytesPerPixel,
                                 x, y, k)]

\* the byte range [start, start + height * stride) of a view
RangeStart(p, nStep, nX, nY, bytesPerPixel) == p + nX * bytesPerPixel + nY * nStep

InRange(q, start, nHeight, nStep) == start <= q /\ q < start + nHeight * nStep

\* C2: freerdp_image_copy takes the overlap-safe path, and does not call the
\* non-overlapping backend, whenever the start of either view lies in the byte range
\* [start, start + height * stride) of the other, for all origins, strides and heights.
C2_IntersectingRangesTakeOverlapPath ==
    (call.op = "freerdp_image_copy" /\ path.copy # "none") =>
        LET a == call.args
            dstStart == RangeStart(a.pDstData, path.dstStep, a.nXDst, a.nYDst,
                                   FreeRDPGetBytesPerPixel(a.DstFormat))
            srcStart == RangeStart(a.pSrcData, path.srcStep, a.nXSrc, a.nYSrc,
                                   FreeRDPGetBytesPerPixel(a.SrcFormat))
        IN  (\/ InRange(srcStart, dstStart, a.nHeight.lo, path.dstStep)
             \/ InRange(dstStart, srcStart, a.nHeight.lo, path.srcStep))
                => path.copy = "overlap"

\* what freerdp_image_copy is asked for, read off the arguments
TooLarge(a) == a.nWidth.hi = 1 \/ a.nHeight.hi = 1

NullBuffer(a) == a.pDstData = NULL \/ a.pSrcData = NULL

ZeroSized(a) == a.nWidth = UINT32(0, 0) \/ a.nHeight = UINT32(0, 0)

\* the call returned ok without entering a copy path or changing the arena
ReturnedUntouched(ok) == ret = Status(ok) /\ mem = old /\ path.copy = "none"

\* C3 as stated: each of the three conditions alone decides the result: failure for a
\* dimension above INT32_MAX, failure for a null buffer, success for a zero dimension, the
\* destination unchanged and no copy path entered.
C3_ValidationAsStated ==
    call.op = "freerdp_image_copy" =>
        /\ (TooLarge(call.args) => ReturnedUntouched(FALSE))
        /\ (NullBuffer(call.args) => ReturnedUntouched(FALSE))
        /\ (ZeroSized(call.args) => ReturnedUntouched(TRUE))

\* C3 as amended: the three checks are made in this order and the first that applies
\* decides: failure for a dimension above INT32_MAX; otherwise failure for a null buffer;
\* otherwise success for a zero dimension; in each case the destination is unchanged and
\* no copy path is entered.
C3_ValidationInOrder ==
    call.op = "freerdp_image_copy" =>
        /\ (TooLarge(call.args) => ReturnedUntouched(FALSE))
        /\ (~TooLarge(call.args) /\ NullBuffer(call.args) => ReturnedUntouched(FALSE))
        /\ (~TooLarge(call.args) /\ ~NullBuffer(call.args) /\ ZeroSized(call.args)
                => ReturnedUntouched(TRUE))

\* C3: a call with zero width, the largest height that is let through and both buffers
\* given has returned success
C3_Witness ==
    /\ call.op = "freerdp_image_copy"
    /\ call.args.nWidth = UINT32(0, 0)
    /\ call.args.nHeight = UINT32(0, INT32_MAX)
    /\ ~NullBuffer(call.args)
    /\ ReturnedUntouched(TRUE)

\* pixel (x, y) of the source rectangle of a copy as it was before the call, converted to
\* the destination format and split into its channels
ConvertedSourcePixel(a, nSrcStep, x, y) ==
    FreeRDPSplitColor(
        FreeRDPConvertColor(
            FreeRDPReadColor_int(old, ByteAt(a.pSrcData, nSrcStep, a.nXSrc, a.nYSrc,
                                             FreeRDPGetBytesPerPixel(a.SrcFormat), x, y, 0),
                                 a.SrcFormat),
            a.SrcFormat, a.DstFormat, CallerPalette),
        a.DstFormat, NoPalette)

\* pixel (x, y) of the destination rectangle of a copy in arena m, split into its channels
DestinationPixel(m, a, nDstStep, x, y) ==
    FreeRDPSplitColor(
        FreeRDPReadColor_int(m, ByteAt(a.pDstData, nDstStep, a.nXDst, a.nYDst,
                                       FreeRDPGetBytesPerPixel(a.DstFormat), x, y, 0),
                             a.DstFormat),
        a.DstFormat, NoPalette)

\* freerdp_image_copy_overlap, its assertion of overlapping() holding, kept the destination
\* alpha in a copy between rectangles that share no byte
KeepDstAlphaCopyDone ==
    /\ call.op = "freerdp_image_copy_overlap"
    /\ ret = Status(TRUE)
    /\ call.args.flags = {"FREERDP_KEEP_DST_ALPHA"}
    /\ FreeRDPColorHasAlpha(call.args.DstFormat)
    /\ path.branch = "dst_alpha"
    /\ path.asserted
    /\ DstBytes(call.args, path.dstStep) \cap SrcBytes(call.args, path.srcStep) = {}

\* C20: with FREERDP_KEEP_DST_ALPHA and a destination format with alpha, the copy of
\* freerdp_image_copy_overlap gives destination pixel (nXDst + x, nYDst + y) the colour
\* channels of the conversion of source pixel (nXSrc + x, nYSrc + y), both addressed with
\* the bytes per pixel of their formats, and leaves the alpha of every destination pixel
\* and every byte outside the destination rectangle as they were.
C20_KeepDstAlphaCopiesColorOnly ==
    KeepDstAlphaCopyDone =>
        /\ \A x \in 0 .. (call.args.nWidth.lo - 1), y \in 0 .. (call.args.nHeight.lo - 1) :
            \E src \in { ConvertedSourcePixel(call.args, path.srcStep, x, y) },
               dst \in { DestinationPixel(mem, call.args, path.dstStep, x, y) } :
                /\ dst.r = src.r /\ dst.g = src.g /\ dst.b = src.b
                /\ dst.a = DestinationPixel(old, call.args, path.dstStep, x, y).a
        /\ \A i \in Arena \ DstBytes(call.args, path.dstStep) : mem[i] = old[i]

\* byte k of pixel (x, y) of the destination rectangle as converting the original source
\* rectangle through a scratch buffer leaves it
ScratchConvertedByte(a, nDstStep, nSrcStep, x, y, k) ==
    LET p == ByteAt(a.pDstData, nDstStep, a.nXDst, a.nYDst,
                    FreeRDPGetBytesPerPixel(a.DstFormat), x, y, 0)
        color == FreeRDPConvertColor(
                     FreeRDPReadColor_int(old, ByteAt(a.pSrcData, nSrcStep, a.nXSrc, a.nYSrc,
                                                      FreeRDPGetBytesPerPixel(a.SrcFormat),
                                                      x, y, 0),
                                          a.SrcFormat),
                     a.SrcFormat, a.DstFormat, CallerPalette)
    IN  FreeRDPWriteColor_int(old, p, a.DstFormat, color).mem[p + k]

\* freerdp_image_copy_overlap, its assertion of overlapping() holding, went through its
\* per-pixel conversion loop without flags
ConvertingCopyDone ==
    /\ call.op = "freerdp_image_copy_overlap"
    /\ ret = Status(TRUE)
    /\ call.args.flags = {}
    /\ path.branch = "convert"
    /\ path.asserted

\* C21: when the source and the destination rectangle share bytes and the formats differ,
\* the per-pixel conversion loop of freerdp_image_copy_overlap leaves every byte of every
\* destination pixel as converting the original source rectangle through a scratch buffer
\* would, for every shift and for formats of equal or different bytes per pixel.
C21_OverlapConversionIsScratchConversion ==
    (/\ ConvertingCopyDone
     /\ DstBytes(call.args, path.dstStep) \cap SrcBytes(call.args, path.srcStep) # {}) =>
        \A x \in 0 .. (call.args.nWidth.lo - 1), y \in 0 .. (call.args.nHeight.lo - 1),
           k \in 0 .. (FreeRDPGetBytesPerPixel(call.args.DstFormat) - 1) :
            mem[ByteAt(call.args.pDstData, path.dstStep, call.args.nXDst, call.args.nYDst,
                       FreeRDPGetBytesPerPixel(call.args.DstFormat), x, y, k)]
                = ScratchConvertedByte(call.args, path.dstStep, path.srcStep, x, y, k)

\* byte k of pixel (x, y) of the destination rectangle as a vertical flip of the original
\* source rectangle leaves it: the byte of source row nHeight - 1 - y, copied where the
\* formats are equal but for alpha and converted where they differ
FlippedSourceByte(a, nDstStep, nSrcStep, x, y, k) ==
    LET row == a.nHeight.lo - 1 - y
        p == ByteAt(a.pDstData, nDstStep, a.nXDst, a.nYDst,
                    FreeRDPGetBytesPerPixel(a.DstFormat), x, y, 0)
        q == ByteAt(a.pSrcData, nSrcStep, a.nXSrc, a.nYSrc,
                    FreeRDPGetBytesPerPixel(a.SrcFormat), x, row, 0)
        color == FreeRDPConvertColor(FreeRDPReadColor_int(old, q, a.SrcFormat),
                                     a.SrcFormat, a.DstFormat, CallerPalette)
    IN  IF FreeRDPAreColorFormatsEqualNoAlpha_int(a.SrcFormat, a.DstFormat)
        THEN old[q + k]
        ELSE FreeRDPWriteColor_int(old, p, a.DstFormat, color).mem[p + k]

\* freerdp_image_copy_overlap, its assertion of overlapping() holding, returned success
\* for a call with the vertical-flip flag alone
FlippedCopyDone ==
    /\ call.op = "freerdp_image_copy_overlap"
    /\ ret = Status(TRUE)
    /\ call.args.flags = {"FREERDP_FLIP_VERTICAL"}
    /\ path.branch \in {"down", "up", "left", "right", "equal", "convert"}
    /\ path.asserted

\* C22: with the vertical-flip flag freerdp_image_copy_overlap gives destination row y
\* the contents that row nHeight - 1 - y of the source rectangle had before the call, in
\* the same-format branch and in the differing-format branch, wherever the two rectangles
\* lie, a flip in place included.
C22_VerticalFlipReversesRows ==
    FlippedCopyDone =>
        \A x \in 0 .. (call.args.nWidth.lo - 1), y \in 0 .. (call.args.nHeight.lo - 1),
           k \in 0 .. (FreeRDPGetBytesPerPixel(call.args.DstFormat) - 1) :
            mem[ByteAt(call.args.pDstData, path.dstStep, call.args.nXDst, call.args.nYDst,
                       FreeRDPGetBytesPerPixel(call.args.DstFormat), x, y, k)]
                = FlippedSourceByte(call.args, path.dstStep, path.srcStep, x, y, k)

\* freerdp_image_copy got past its checks and dispatched the call to a copy path
CopyDispatched == call.op = "freerdp_image_copy" /\ path.copy # "none"

\* C23: every call that freerdp_image_copy dispatches satisfies the assertion of the path
\* it enters: freerdp_image_copy_overlap is entered only when overlapping() is true and
\* freerdp_image_copy_no_overlap only when it is false, on the origins, the height and the
\* strides after zero-stride resolution that the dispatcher used, and no build aborts.
C23_DispatchSatisfiesAssertions ==
    CopyDispatched =>
        /\ path.asserted
        /\ ret # Aborted
        /\ path.copy = "overlap" <=> Overlapping(call.args, path.dstStep, path.srcStep)
        /\ path.copy = "no_overlap" <=> ~Overlapping(call.args, path.dstStep, path.srcStep)

\* C23: a call with zero strides was dispatched to freerdp_image_copy_overlap, whose
\* assertion would not hold on the strides as the caller gave them
C23_Witness ==
    /\ CopyDispatched
    /\ path.copy = "overlap"
    /\ path.asserted
    /\ ret = Status(TRUE)
    /\ call.args.nDstStep = 0 /\ call.args.nSrcStep = 0
    /\ ~Overlapping(call.args, call.args.nDstStep, call.args.nSrcStep)

(***************************************************************************)
(* Properties of fill, glyph expansion and the monochrome stencil.         *)
(***************************************************************************)
\* the bytes of the rectangle of a fill with the stride given
FillBytes(f, nDstStep) ==
    { ByteAt(f.pDstData, nDstStep, f.nXDst, f.nYDst, FreeRDPGetBytesPerPixel(f.DstFormat),
             x, y, k) :
        x \in 0 .. (f.nWidth - 1), y \in 0 .. (f.nHeight - 1),
        k \in 0 .. (FreeRDPGetBytesPerPixel(f.DstFormat) - 1) }

\* C7: after freerdp_image_fill with a non-zero stride every pixel of the rectangle reads
\* back as the fill colour and every byte outside the rectangle, row padding and the
\* columns left and right of it included, is as before; with a zero width or height
\* nothing is written; the call succeeds.  The fill colour is a colour of the format.
C7_FillWritesTheRectangleOnly ==
    (/\ call.op = "freerdp_image_fill"
     /\ (call.args.nDstStep # 0 \/ call.args.nWidth = 0 \/ call.args.nHeight = 0)) =>
        LET f == call.args
        IN  /\ ret = Status(TRUE)
            /\ \A x \in 0 .. (f.nWidth - 1), y \in 0 .. (f.nHeight - 1) :
                    FreeRDPReadColor_int(mem,
                        ByteAt(f.pDstData, f.nDstStep, f.nXDst, f.nYDst,
                               FreeRDPGetBytesPerPixel(f.DstFormat), x, y, 0),
                        f.DstFormat) = f.color
            /\ \A i \in Arena \ FillBytes(f, f.nDstStep) : mem[i] = old[i]

\* C7: a 2 x 2 fill at (1, 1) of 16-bit pixels in rows of 12 bytes, with columns left and
\* right of the rectangle and a row above it, has changed the arena
C7_Witness ==
    /\ call.op = "freerdp_image_fill"
    /\ call.args.DstFormat = "RGB16" /\ call.args.nDstStep = 12
    /\ call.args.nXDst = 1 /\ call.args.nYDst = 1
    /\ call.args.nWidth = 2 /\ call.args.nHeight = 2
    /\ mem # old

\* the width a call was made with
WidthOf(c) ==
    IF c.op \in {"freerdp_image_copy", "freerdp_image_copy_overlap"}
    THEN c.args.nWidth.lo ELSE c.args.nWidth

\* C8: every operation that takes a stride resolves a zero stride to the width times the
\* bytes per pixel of the format, whatever the x origin is.  Stated for the operations
\* modelled: freerdp_image_copy, freerdp_image_copy_overlap, freerdp_image_fill and
\* freerdp_image_copy_from_monochrome.
C8_ZeroStrideIsWidthTimesBytesPerPixel ==
    (/\ call.op \in {"freerdp_image_copy", "freerdp_image_copy_overlap", "freerdp_image_fill",
                     "freerdp_image_copy_from_monochrome"}
     /\ call.args.nDstStep = 0
     /\ path.dstStep # 0) =>
        path.dstStep = WidthOf(call) * FreeRDPGetBytesPerPixel(call.args.DstFormat)

\* bit (0x80 >> (x mod 8)) of the byte
BitOf(byte, x) == (byte \div Pow2(7 - (x % 8))) % 2 = 1

\* C9: freerdp_glyph_convert turns a bitmap of one bit per pixel, in rows of
\* ceil(width / 8) bytes, into width * height bytes: byte y * width + x is 0xFF when bit
\* (0x80 >> (x mod 8)) of input byte y * ceil(width / 8) + x div 8 is set, and 0x00
\* otherwise, for every width and height.
C9_GlyphExpansion ==
    (call.op = "freerdp_glyph_convert" /\ "data" \in DOMAIN ret) =>
        LET g == call.args
        IN  /\ Len(ret.data) = g.width * g.height
            /\ \A x \in 0 .. (g.width - 1), y \in 0 .. (g.height - 1) :
                    ret.data[y * g.width + x + 1]
                        = IF BitOf(g.data[y * ((g.width + 7) \div 8) + x \div 8 + 1], x)
                          THEN 255 ELSE 0

\* C9: the row 0b10110000 of width 8 has given FF 00 FF FF 00 00 00 00
C9_Witness ==
    /\ call.op = "freerdp_glyph_convert"
    /\ call.args.width = 8 /\ call.args.height = 1
    /\ call.args.data[1] = 176
    /\ ret = [data |-> <<255, 0, 255, 255, 0, 0, 0, 0>>]

\* a monochrome copy that got past its null checks
MonochromeDone == call.op = "freerdp_image_copy_from_monochrome" /\ ret = Status(TRUE)

\* the bit of the byte-padded mask for pixel (x, y), as the caller handed the mask over
MaskBit(c, x, y) == BitOf(old[c.pSrcData + y * ((c.nWidth + 7) \div 8) + x \div 8], x)

\* the colour pixel (x, y) of the destination rectangle reads back as
MonoPixelRead(c, x, y) ==
    FreeRDPReadColor_int(mem,
        ByteAt(c.pDstData, path.dstStep, c.nXDst, c.nYDst,
               FreeRDPGetBytesPerPixel(c.DstFormat), x, y, 0),
        c.DstFormat)

\* C10 as stated: every pixel of the destination rectangle is foreColor where the bit of
\* the mask is set and backColor where it is clear.
C10_ForeColorWhereBitSet ==
    MonochromeDone =>
        \A x \in 0 .. (call.args.nWidth - 1), y \in 0 .. (call.args.nHeight - 1) :
            MonoPixelRead(call.args, x, y)
                = IF MaskBit(call.args, x, y) THEN call.args.foreColor ELSE call.args.backColor

\* C10 as amended: every pixel of the destination rectangle is backColor where the bit of
\* the mask is set and foreColor where it is clear.
C10_BackColorWhereBitSet ==
    MonochromeDone =>
        \A x \in 0 .. (call.args.nWidth - 1), y \in 0 .. (call.args.nHeight - 1) :
            MonoPixelRead(call.args, x, y)
                = IF MaskBit(call.args, x, y) THEN call.args.backColor ELSE call.args.foreColor

\* C10: a copy of two lines of nine pixels, each line two bytes of a mask with set and
\* clear bits, has been made
C10_Witness ==
    /\ MonochromeDone
    /\ call.args.nWidth = 9 /\ call.args.nHeight = 2
    /\ old[MaskBase] = 176 /\ old[MaskBase + 1] = 1
    /\ mem # old

(***************************************************************************)
(* Properties of the icon and pointer decoders.                            *)
(***************************************************************************)
\* a build for evaluating a copy between buffers that do not overlap, where the builds agree
AnyBuild == [asserts |-> FALSE, libc |-> "forward", vector |-> FALSE]

\* an icon was decoded into a destination with alpha, with a mask of the full length
IconMasked ==
    /\ call.op = "freerdp_image_copy_from_icon_data"
    /\ ret = Status(TRUE)
    /\ FreeRDPColorHasAlpha(call.args.DstFormat)
    /\ call.args.cbBitsMask >= IconMaskStride(call.args.nWidth) * call.args.nHeight
    /\ call.args.cbBitsMask # 0

\* the arena after the colour pass of the icon alone
IconColorPass(c) ==
    copy_no_overlap(old, IconCopyArgs(c, IconFormat(c.bpp)),
                    fill_gdi_palette_for_icon(old, c.colorTable, c.cbColorTable), AnyBuild).mem

\* pixel (x, y) of the destination rectangle of arena m, split into its channels
IconPixel(m, c, x, y) ==
    FreeRDPSplitColor(
        FreeRDPReadColor_int(m, ByteAt(c.pDstData, ResolveStep(c.nDstStep, c.nWidth, c.DstFormat),
                                       c.nXDst, c.nYDst, FreeRDPGetBytesPerPixel(c.DstFormat),
                                       x, y, 0),
                             c.DstFormat),
        c.DstFormat, NoPalette)

\* C11: after a successful freerdp_image_copy_from_icon_data into a destination format
\* with alpha, with a mask, every pixel (x, y) of the destination rectangle at
\* (nXDst + x, nYDst + y), for any origin and stride, has alpha 0xFF where bit x of mask
\* row nHeight - 1 - y is 0 and 0x00 where it is 1, and the colour channels of the colour
\* pass; mask rows are roundUp(ceil(nWidth / 8), 4) bytes; no byte outside the rectangle
\* is rewritten.
C11_IconAlphaFollowsTheMask ==
    IconMasked =>
        LET c == call.args
        IN  /\ \A x \in 0 .. (c.nWidth - 1), y \in 0 .. (c.nHeight - 1) :
                /\ IconPixel(mem, c, x, y).a
                    = IF BitOf(old[c.bitsMask
                                   + ((((c.nWidth + 7) \div 8) + 3) \div 4) * 4 * (c.nHeight - 1 - y)
                                   + x \div 8], x)
                      THEN 0 ELSE 255
                /\ IconPixel(mem, c, x, y).r = IconPixel(IconColorPass(c), c, x, y).r
                /\ IconPixel(mem, c, x, y).g = IconPixel(IconColorPass(c), c, x, y).g
                /\ IconPixel(mem, c, x, y).b = IconPixel(IconColorPass(c), c, x, y).b
            /\ \A i \in Arena \ FillBytes(c, ResolveStep(c.nDstStep, c.nWidth, c.DstFormat)) :
                    mem[i] = old[i]

\* C12: freerdp_image_copy_from_icon_data returns failure, before copying anything,
\* whenever cbBitsColor is smaller than the product nWidth * nHeight * bytesPerPixel
\* taken without wrapping, for all 16-bit widths and heights and the depths 8, 16, 24
\* and 32.
C12_IconRejectsShortPayload ==
    (/\ call.op = "freerdp_image_copy_from_icon_data"
     /\ call.args.pDstData # NULL /\ call.args.bitsColor # NULL
     /\ IconFormat(call.args.bpp) # "NONE"
     /\ DemandExceeds(Product16(call.args.nWidth, call.args.nHeight),
                      FreeRDPGetBytesPerPixel(IconFormat(call.args.bpp)),
                      call.args.cbBitsColor)) =>
        (ret = Status(FALSE) /\ mem = old /\ path.colorRead = 0)

\* a pointer of the depth given was decoded
PointerDecoded(depths) ==
    /\ call.op = "freerdp_image_copy_from_pointer_data"
    /\ ret = Status(TRUE)
    /\ call.args.xorBpp \in depths

\* ceil(nWidth / 8) rounded up to an even number of bytes
EvenMaskStride(nWidth) == 2 * ((((nWidth + 7) \div 8) + 1) \div 2)

\* the bit of pixel x of row `row` of a mask of the caller, rows of `stride` bytes
MaskBitAt(mask, stride, row, x) == BitOf(old[mask + (stride * row) + (x \div 8)], x)

\* pixel (x, y) of the destination rectangle of the pointer, split into its channels
PointerPixel(p, x, y) == IconPixel(mem, p, x, y)

\* every stored byte of pixel (x, y) of the destination rectangle is zero
PointerPixelIsZero(p, x, y) ==
    \A k \in 0 .. (FreeRDPGetBytesPerPixel(p.DstFormat) - 1) :
        mem[ByteAt(p.pDstData, ResolveStep(p.nDstStep, p.nWidth, p.DstFormat), p.nXDst, p.nYDst,
                   FreeRDPGetBytesPerPixel(p.DstFormat), x, y, k)] = 0

\* C13: in the 1-bit pointer path rows are read top-down, in rows of ceil(nWidth / 8) bytes
\* rounded up to an even number, and pixel (x, y) is given by its AND bit and its XOR bit
\* alone: (0,0) opaque black, (0,1) opaque white, (1,0) all stored bits zero, (1,1) opaque
\* black where x + y is odd and opaque white where it is even.
C13_OneBitPointerPixels ==
    PointerDecoded({1}) =>
        \A x \in 0 .. (call.args.nWidth - 1), y \in 0 .. (call.args.nHeight - 1) :
            LET andBit == MaskBitAt(call.args.andMask, EvenMaskStride(call.args.nWidth), y, x)
                xorBit == MaskBitAt(call.args.xorMask, EvenMaskStride(call.args.nWidth), y, x)
            IN  CASE ~andBit /\ ~xorBit -> PointerPixel(call.args, x, y) = RGBA(0, 0, 0, 255)
                  [] ~andBit /\ xorBit ->
                        PointerPixel(call.args, x, y) = RGBA(255, 255, 255, 255)
                  [] andBit /\ ~xorBit -> PointerPixelIsZero(call.args, x, y)
                  [] OTHER ->
                        PointerPixel(call.args, x, y)
                            = IF (x + y) % 2 = 1 THEN RGBA(0, 0, 0, 255)
                              ELSE RGBA(255, 255, 255, 255)

\* C13 witness: a 1-bit pointer of two by two pixels was decoded to ARGB32 and shows the
\* four cases: (0,0) with both bits set, (1,0) with neither, (0,1) with the AND bit and
\* (1,1) with the XOR bit
C13_Witness ==
    /\ PointerDecoded({1})
    /\ call.args.DstFormat = "ARGB32" /\ call.args.nWidth = 2 /\ call.args.nHeight = 2
    /\ MaskBitAt(call.args.andMask, 2, 0, 0) /\ MaskBitAt(call.args.xorMask, 2, 0, 0)
    /\ ~MaskBitAt(call.args.andMask, 2, 0, 1) /\ ~MaskBitAt(call.args.xorMask, 2, 0, 1)
    /\ MaskBitAt(call.args.andMask, 2, 1, 0) /\ ~MaskBitAt(call.args.xorMask, 2, 1, 0)
    /\ ~MaskBitAt(call.args.andMask, 2, 1, 1) /\ MaskBitAt(call.args.xorMask, 2, 1, 1)
    /\ PointerPixel(call.args, 0, 0) = RGBA(255, 255, 255, 255)
    /\ PointerPixel(call.args, 1, 0) = RGBA(0, 0, 0, 255)
    /\ PointerPixelIsZero(call.args, 0, 1)
    /\ PointerPixel(call.args, 1, 1) = RGBA(255, 255, 255, 255)

\* the XOR pixel of destination pixel (x, y) as the caller stored it, rows bottom-up,
\* normalised to ARGB32
NormalizedXorPixel(p, x, y) ==
    LET at == p.xorMask + (PointerXorStep(p.nWidth, p.xorBpp) * (p.nHeight - 1 - y))
                  + (x * (p.xorBpp \div 8))
    IN  CASE p.xorBpp = 32 ->
                FreeRDPConvertColor(U32(old[at], old[at + 1], old[at + 2], old[at + 3]),
                                    "BGRA32", "ARGB32", NoPalette)
          [] p.xorBpp = 24 ->
                FreeRDPConvertColor(U32(0, old[at], old[at + 1], old[at + 2]),
                                    "BGR24", "ARGB32", NoPalette)
          [] p.xorBpp = 16 ->
                FreeRDPConvertColor(U32(0, 0, old[at + 1] % 128, old[at]),
                                    "RGB15", "ARGB32", NoPalette)
          [] OTHER ->
                FreeRDPConvertColor(PointerPalette.palette[old[at]], PointerPalette.format,
                                    "ARGB32", PointerPalette)

\* the AND bit of destination pixel (x, y) is set, rows bottom-up
AndBitSet(p, x, y) ==
    p.andMask # NULL /\ MaskBitAt(p.andMask, EvenMaskStride(p.nWidth), p.nHeight - 1 - y, x)

\* C14: in the 8/16/24/32-bit pointer path a pixel is normalised to ARGB32; with its AND bit
\* set it becomes 0x00000000 where that colour is opaque black and the checkerboard colour of
\* the parity of x + y where it is opaque white; every other pixel, every pixel with the AND
\* bit clear and every pixel of a call without AND mask keeps its colour; the result is
\* stored converted to the destination format.
C14_AndMaskActsOnSentinels ==
    PointerDecoded({8, 16, 24, 32}) =>
        \A x \in 0 .. (call.args.nWidth - 1), y \in 0 .. (call.args.nHeight - 1) :
            \E color \in { NormalizedXorPixel(call.args, x, y) } :
                FreeRDPReadColor_int(
                    mem, ByteAt(call.args.pDstData, path.dstStep, call.args.nXDst,
                                call.args.nYDst, FreeRDPGetBytesPerPixel(call.args.DstFormat),
                                x, y, 0),
                    call.args.DstFormat)
                = FreeRDPConvertColor(
                    IF AndBitSet(call.args, x, y) /\ color = U32(255, 0, 0, 0)
                    THEN U32(0, 0, 0, 0)
                    ELSE IF AndBitSet(call.args, x, y) /\ color = U32(255, 255, 255, 255)
                    THEN (IF (x + y) % 2 = 1 THEN U32(255, 0, 0, 0)
                          ELSE U32(255, 255, 255, 255))
                    ELSE color,
                    "ARGB32", call.args.DstFormat, NoPalette)

\* C14 witness: a 32-bit pointer of one by two pixels was decoded to ARGB32 with both AND
\* bits set: the opaque black of the lower source row became transparent in row 0, the
\* white of the upper source row the black of the checkerboard in row 1
C14_Witness ==
    /\ PointerDecoded({32})
    /\ call.args.DstFormat = "ARGB32" /\ call.args.nWidth = 1 /\ call.args.nHeight = 2
    /\ AndBitSet(call.args, 0, 0) /\ AndBitSet(call.args, 0, 1)
    /\ NormalizedXorPixel(call.args, 0, 0) = U32(255, 0, 0, 0)
    /\ NormalizedXorPixel(call.args, 0, 1) = U32(255, 255, 255, 255)
    /\ PointerPixelIsZero(call.args, 0, 0)
    /\ PointerPixel(call.args, 0, 1) = RGBA(0, 0, 0, 255)

\* the bytes of rows nYDst <= y < nHeight over the columns nXDst <= x < nWidth
ZeroFillBytes(p, nDstStep) ==
    { ByteAt(p.pDstData, nDstStep, 0, 0, FreeRDPGetBytesPerPixel(p.DstFormat), x, y, k) :
        x \in p.nXDst .. (p.nWidth - 1), y \in p.nYDst .. (p.nHeight - 1),
        k \in 0 .. (FreeRDPGetBytesPerPixel(p.DstFormat) - 1) }

\* the bytes a later decode wrote: the destination rectangle of a successful call
PointerDecodedBytes(p, nDstStep) ==
    IF ret = Status(TRUE) THEN FillBytes(p, nDstStep) ELSE {}

\* C15: freerdp_image_copy_from_pointer_data zero-fills, before the dispatch and before any
\* validation, exactly rows nYDst <= y < nHeight over columns nXDst <= x < nWidth and no
\* other byte, also when the call then fails, nothing when nYDst >= nHeight, and the byte
\* count of a row never exceeds bytesPerPixel * nWidth for any nXDst.
C15_ZeroFillOfRowsAndColumns ==
    call.op = "freerdp_image_copy_from_pointer_data" =>
        /\ ~path.zeroCount.wraps
        /\ path.zeroCount.bytes
                <= FreeRDPGetBytesPerPixel(call.args.DstFormat) * call.args.nWidth
        /\ ret \in {Status(TRUE), Status(FALSE)}
        /\ \A i \in Arena \ PointerDecodedBytes(call.args, path.dstStep) :
                mem[i] = IF i \in ZeroFillBytes(call.args, path.dstStep) THEN 0 ELSE old[i]

\* C16: the mask decoders read no byte at or beyond the length given for a mask: where
\* xorMaskLength, andMaskLength (pointer) or cbBitsMask (icon) is below row stride * height
\* for a mask the call uses, the call fails before it reads a byte of that mask.
C16_MaskReadsWithinLength ==
    /\ call.op = "freerdp_image_copy_from_icon_data" =>
        /\ path.maskRead <= call.args.cbBitsMask
        /\ (call.args.bitsColor # NULL /\ IconFormat(call.args.bpp) # "NONE"
            /\ FreeRDPColorHasAlpha(call.args.DstFormat) /\ call.args.cbBitsMask # 0
            /\ call.args.cbBitsMask
                    < (4 * ((((call.args.nWidth + 7) \div 8) + 3) \div 4)) * call.args.nHeight)
            => (ret = Status(FALSE) /\ path.maskRead = 0)
    /\ (call.op = "freerdp_image_copy_from_pointer_data" /\ ret # Aborted) =>
        /\ path.colorRead <= call.args.xorMaskLength
        /\ path.maskRead <= call.args.andMaskLength
        /\ (call.args.xorMask # NULL /\ call.args.xorBpp \in {1, 8, 16, 24, 32}
            /\ call.args.xorMaskLength
                    < (IF call.args.xorBpp = 1 THEN EvenMaskStride(call.args.nWidth)
                       ELSE 2 * (((call.args.nWidth * (call.args.xorBpp \div 8)) + 1) \div 2))
                      * call.args.nHeight)
            => (ret = Status(FALSE) /\ path.colorRead = 0 /\ path.maskRead = 0)
        /\ (call.args.xorMask # NULL /\ call.args.andMask # NULL
            /\ call.args.xorBpp \in {1, 8, 16, 24, 32}
            /\ call.args.andMaskLength < EvenMaskStride(call.args.nWidth) * call.args.nHeight)
            => (ret = Status(FALSE) /\ path.colorRead = 0 /\ path.maskRead = 0)

(***************************************************************************)
(* Properties of the scaler and of the backend handle.                     *)
(***************************************************************************)
\* the region copy with the formats, strides and origins of a call of the scaler
DirectCopyArgs(s) ==
    CopyArgs(s.pDstData, s.DstFormat, s.nDstStep, s.nXDst, s.nYDst, s.nDstWidth, s.nDstHeight,
             s.pSrcData, s.SrcFormat, s.nSrcStep, s.nXSrc, s.nYSrc, {})

\* the two rectangles of a call of the scaler share no byte
ScaleRectanglesDisjoint(s) ==
    DstBytes(DirectCopyArgs(s), ResolveStep(s.nDstStep, s.nDstWidth.lo, s.DstFormat))
        \cap SrcBytes(DirectCopyArgs(s), ResolveStep(s.nSrcStep, s.nSrcWidth.lo, s.SrcFormat))
    = {}

\* C17: freerdp_image_scale with equal dimensions leaves the destination, and returns, as
\* freerdp_image_copy with the same formats, strides and origins does, for rectangles that
\* share no byte; with differing dimensions and no scaler built in it returns FALSE and
\* leaves the destination unchanged.
C17_ScaleIsCopyOrFailure ==
    call.op = "freerdp_image_scale" =>
        IF call.args.nDstWidth = call.args.nSrcWidth
            /\ call.args.nDstHeight = call.args.nSrcHeight
        THEN ScaleRectanglesDisjoint(call.args) =>
                \E direct \in { freerdp_image_copy(old, DirectCopyArgs(call.args), NoPalette,
                                                   call.build) } :
                    mem = direct.mem /\ ret = direct.ret
        ELSE ret = Status(FALSE) /\ mem = old

\* C18: whatever the interleaving of the threads in their first calls of
\* freerdp_image_copy_no_overlap, at most one thread calls primitives_get, at most one
\* assigns the static handle, and no thread assigns it once it is not null.
C18_HandleInitializedOnce ==
    /\ Cardinality({ t \in Threads : threads[t].got }) <= 1
    /\ Cardinality({ t \in Threads : threads[t].wrote }) <= 1
    /\ \A t \in Threads : ~threads[t].overwrote

\* C19: where primitives_get yields no handle or a handle without copy function,
\* freerdp_image_copy_no_overlap still converts the rectangle with the loop of the core and
\* returns its result: it neither aborts nor fails, and returns TRUE only with the copy done.
C19_CopiesWithoutBackend ==
    (call.op = "freerdp_image_copy_no_overlap" /\ prims # primitives_get) =>
        \E copied \in { copy_no_overlap(old, call.args, CallerPalette, call.build) } :
            ret = Status(copied.success) /\ mem = copied.mem

(***************************************************************************)
(* Properties of the colour codec.                                         *)
(***************************************************************************)
\* the formats both FreeRDPSplitColor and FreeRDPGetColor have a case for
CodecFormats ==
    { "ARGB32", "XRGB32", "ABGR32", "XBGR32", "BGRA32", "BGRX32", "RGBA32", "RGBX32",
      "RGB24", "BGR24", "RGB16", "BGR16", "ARGB15", "RGB15", "ABGR15", "BGR15" }

\* the formats FreeRDPGetColor has a case for
PackedFormats == CodecFormats \cup {"BGRX32_DEPTH30", "RGBX32_DEPTH30"}

NoAlphaFormats ==
    { "XRGB32", "XBGR32", "RGBX32", "BGRX32", "RGB24", "BGR24", "RGB16", "BGR16", "RGB15", "BGR15" }

\* the bits of color that hold no channel of the format have the value the codec gives them
SpareBitsCanonical(format, color) ==
    CASE format \in {"ARGB32", "ABGR32", "RGBA32", "BGRA32"} -> TRUE
      [] format \in {"XRGB32", "XBGR32", "RGB24", "BGR24"} -> color[1] = 0
      [] format \in {"RGBX32", "BGRX32"} -> color[4] = 255
      [] format \in {"RGB16", "BGR16", "ARGB15", "ABGR15"} -> color[1] = 0 /\ color[2] = 0
      [] format \in {"RGB15", "BGR15"} -> color[1] = 0 /\ color[2] = 0 /\ color[3] < 128

SameFormatConversion ==
    call.op = "FreeRDPConvertColor" /\ call.srcFormat = call.dstFormat

\* C4: converting a packed colour to its own format is the identity.  Stated for the
\* formats both directions of the codec handle and for the packed colours whose bits
\* outside the channels are the ones the codec itself writes, where the claim is beyond
\* doubt what the codec is meant to do.
C4_ConvertToOwnFormatIsIdentity ==
    (/\ SameFormatConversion
     /\ call.srcFormat \in CodecFormats
     /\ SpareBitsCanonical(call.srcFormat, call.color)) => ret.color = call.color

\* a channel of the split colour agrees with the packed byte in the bits the format stores
StoredBitsAgree(bits, packed, split) ==
    /\ Shr(split, 8 - bits) = Shr(packed, 8 - bits)
    /\ (Shr(packed, 8 - bits) = Pow2(bits) - 1 => split = 255)

\* the bits FreeRDPGetColor keeps of a channel
StoredBits(width) == IF width > 8 THEN 8 ELSE width

\* C5: packing and then splitting gives back r, g and b in every bit the format stores, a
\* 5- or 6-bit channel at its maximum expands to 255, and packing the split colour again
\* gives the same packed colour, for every format FreeRDPGetColor packs.
C5_PackSplitRoundTrip ==
    (call.op = "FreeRDPGetColor" /\ call.format \in PackedFormats) =>
        LET d == FormatDescriptor(call.format)
            s == FreeRDPSplitColor(ret.color, call.format, CallerPalette)
        IN  /\ StoredBitsAgree(StoredBits(d.r), call.r, s.r)
            /\ StoredBitsAgree(StoredBits(d.g), call.g, s.g)
            /\ StoredBitsAgree(StoredBits(d.b), call.b, s.b)
            /\ FreeRDPGetColor(call.format, s.r, s.g, s.b, s.a) = ret.color

\* C6: in a format without alpha the alpha argument has no influence on the packed colour,
\* and splitting any packed colour of such a format reports alpha 0xFF.
C6_AlphaIgnoredWithoutAlpha ==
    /\ (call.op = "FreeRDPGetColor" /\ call.format \in NoAlphaFormats) =>
            \A a2 \in ByteSamples :
                FreeRDPGetColor(call.format, call.r, call.g, call.b, a2) = ret.color
    /\ (call.op = "FreeRDPSplitColor" /\ call.format \in NoAlphaFormats) => ret.a = 255

=============================================================================
